---- MODULE Spec2Model ----
(***************************************************************************)
(* Model of the JSON-API client of egauge-async:                           *)
(*   JwtAuthManager      (src/egauge_async/json/auth.py)                   *)
(*   EgaugeJsonClient    (src/egauge_async/json/client.py)                 *)
(*   TYPE_CODES          (src/egauge_async/json/type_codes.py)             *)
(*                                                                         *)
(* Every call made on the shared manager/client is a coroutine of one      *)
(* asyncio event loop: the code between two awaits that really suspend     *)
(* runs atomically, so each action below is one such segment.  The clock   *)
(* (time.time()) is the variable now and advances between segments.        *)
(***************************************************************************)
EXTENDS Integers, Sequences, FiniteSets, TLC

(* ------------------------------ bounds --------------------------------- *)
NumCalls == 3          \* calls made directly on the manager
NumRequests == 2       \* requests made through the client
MaxTicks == 1          \* clock ticks observed
MaxAuth == 3           \* nonce fetches (authentication attempts) observed

(* ------------------------- program constants --------------------------- *)
MIN_REFRESH_BUFFER_SECONDS == 1
MAX_REFRESH_BUFFER_SECONDS == 600
MAX_TOKEN_LIFETIME_SECONDS == 86400
DefaultRefreshBuffer == 60

Calls == 1..NumCalls
Requests == 1..NumRequests
TickSeconds == {30}                 \* clock granularity of the model
RefreshBuffers == {60, 120}         \* constructor arguments explored

VARIABLES
    token_state,               \* <<>> (None) or <<_TokenState>>
    lock_holder,               \* _token_lock: 0 = unlocked, else the call holding it
    lock_waiters,              \* _token_lock: FIFO of calls suspended in acquire()
    refresh_buffer_seconds,    \* _refresh_buffer_seconds
    now,                       \* time.time()
    op,                        \* per call: the public operation it runs
    pc,                        \* per call: the await at which it is suspended
    result,                    \* per call: return value or raised exception
    trace,                     \* per call: what the call did, in order
    direct,                    \* the latest call of the constructor or of the
                               \* static method _parse_jwt_expiry, and its outcome
    register_cache,            \* the client's _register_cache: <<>> (None) or
                               \* <<the mapping name -> RegisterInfo>>
    frame                      \* per call: the local variables of the client
                               \* method it runs

vars == <<token_state, lock_holder, lock_waiters, refresh_buffer_seconds, now,
          op, pc, result, trace, direct, register_cache, frame>>

(* ------------------------------ tokens --------------------------------- *)
\* A JSON claim value of the JWT payload.
Num(n)     == [kind |-> "num", val |-> n]
NumStr(n)  == [kind |-> "str", val |-> n]      \* a string float() accepts
BadStr     == [kind |-> "badstr", val |-> 0]   \* a string float() rejects
Missing    == [kind |-> "missing", val |-> 0]  \* key absent (or null)
Other      == [kind |-> "other", val |-> 0]    \* list, dict, ...

\* A token string: number of dot-separated segments, whether the second
\* segment is base64url-encoded JSON, and the beg / ltm / exp claims it
\* carries.  serial tells tokens of different logins apart.
Jwt(segs, dec, beg, ltm, serial) ==
    [segments |-> segs, decodable |-> dec, beg |-> beg, ltm |-> ltm,
     exp |-> Missing, serial |-> serial]

\* a well-formed token with the standard exp claim and no beg / ltm
JwtExp(exp, serial) == [Jwt(3, TRUE, Missing, Missing, serial) EXCEPT !.exp = exp]

NoToken == Jwt(0, FALSE, Missing, Missing, 0)

TokenState(tok, expiry, issued) ==
    [token |-> tok, expiry_timestamp |-> expiry, issued_at |-> issued]

None == <<>>

\* The local variables of a client method: the registers argument, the
\* request it is at (stage) and the length of its trace when that request
\* began, the indices of params["reg"], the body of the response (data),
\* and for the caught auth_error the length of the trace when it was raised
\* (reraised: the same, once the method has raised it again).
Frame(registers, stage, since, reg, data, auth_error, reraised) ==
    [registers |-> registers, stage |-> stage, since |-> since, reg |-> reg,
     data |-> data, auth_error |-> auth_error, reraised |-> reraised]
NoFrame == Frame(<<>>, "none", 0, <<>>, <<>>, 0, 0)

\* The outcome of a call made on the class itself.
Direct(fn, buf, tok, at, raised, why, value) ==
    [fn |-> fn, buffer |-> buf, token |-> tok, at |-> at, raised |-> raised,
     why |-> why, value |-> value]
NoDirect == Direct("none", 0, NoToken, 0, "none", "none", 0)

(* --------------------------- _parse_jwt_expiry ------------------------- *)
ParseOk(e)   == [ok |-> TRUE, expiry |-> e, err |-> "none"]
ParseErr(m)  == [ok |-> FALSE, expiry |-> 0, err |-> m]

\* a parser that falls back to the standard exp claim
ParseJwtExpiryWithExp(token, t) ==
    IF token.segments < 2 THEN ParseErr("malformed")
    ELSE IF ~token.decodable THEN ParseErr("decode")
    ELSE IF /\ token.beg.kind = "missing" /\ token.ltm.kind = "missing"
            /\ token.exp.kind \in {"num", "str"}
         THEN IF token.exp.val < t THEN ParseErr("expired")
              ELSE ParseOk(token.exp.val)
    ELSE IF token.beg.kind = "missing" THEN ParseErr("missing_beg")
    ELSE IF token.ltm.kind = "missing" THEN ParseErr("missing_ltm")
    ELSE IF token.beg.kind \in {"badstr", "other"} THEN ParseErr("beg_not_numeric")
    ELSE IF token.ltm.kind \in {"badstr", "other"} THEN ParseErr("ltm_not_numeric")
    ELSE IF token.ltm.val <= 0 THEN ParseErr("ltm_not_positive")
    ELSE IF token.ltm.val > MAX_TOKEN_LIFETIME_SECONDS THEN ParseErr("ltm_too_long")
    ELSE IF token.beg.val + token.ltm.val < t THEN ParseErr("expired")
    ELSE ParseOk(token.beg.val + token.ltm.val)

\* a parser that refuses the longest lifetime allowed
ParseJwtExpiryShortLifetime(token, t) ==
    IF token.segments < 2 THEN ParseErr("malformed")
    ELSE IF ~token.decodable THEN ParseErr("decode")
    ELSE IF token.beg.kind = "missing" THEN ParseErr("missing_beg")
    ELSE IF token.ltm.kind = "missing" THEN ParseErr("missing_ltm")
    ELSE IF token.beg.kind \in {"badstr", "other"} THEN ParseErr("beg_not_numeric")
    ELSE IF token.ltm.kind \in {"badstr", "other"} THEN ParseErr("ltm_not_numeric")
    ELSE IF token.ltm.val <= 0 THEN ParseErr("ltm_not_positive")
    ELSE IF token.ltm.val >= MAX_TOKEN_LIFETIME_SECONDS THEN ParseErr("ltm_too_long")
    ELSE IF token.beg.val + token.ltm.val < t THEN ParseErr("expired")
    ELSE ParseOk(token.beg.val + token.ltm.val)

\* a parser that looks at the expiry before it looks at the lifetime
ParseJwtExpiryExpiryFirst(token, t) ==
    IF token.segments < 2 THEN ParseErr("malformed")
    ELSE IF ~token.decodable THEN ParseErr("decode")
    ELSE IF token.beg.kind = "missing" THEN ParseErr("missing_beg")
    ELSE IF token.ltm.kind = "missing" THEN ParseErr("missing_ltm")
    ELSE IF token.beg.kind = "badstr" THEN ParseErr("beg_not_numeric")
    ELSE IF token.ltm.kind = "badstr" THEN ParseErr("ltm_not_numeric")
    ELSE IF token.beg.kind = "other" THEN ParseErr("beg_not_numeric")
    ELSE IF token.ltm.kind = "other" THEN ParseErr("ltm_not_numeric")
    ELSE IF token.beg.val + token.ltm.val < t THEN ParseErr("expired")
    ELSE IF token.ltm.val <= 0 THEN ParseErr("ltm_not_positive")
    ELSE IF token.ltm.val > MAX_TOKEN_LIFETIME_SECONDS THEN ParseErr("ltm_too_long")
    ELSE ParseOk(token.beg.val + token.ltm.val)

ParseJwtExpiry(token, t) ==
    IF token.segments < 2 THEN ParseErr("malformed")
    ELSE IF ~token.decodable THEN ParseErr("decode")
    ELSE IF token.beg.kind = "missing" THEN ParseErr("missing_beg")
    ELSE IF token.ltm.kind = "missing" THEN ParseErr("missing_ltm")
    ELSE IF token.beg.kind = "badstr" THEN ParseErr("beg_not_numeric")
    ELSE IF token.ltm.kind = "badstr" THEN ParseErr("ltm_not_numeric")
    ELSE IF token.beg.kind = "other" THEN ParseErr("beg_not_numeric")
    ELSE IF token.ltm.kind = "other" THEN ParseErr("ltm_not_numeric")
    ELSE IF token.ltm.val <= 0 THEN ParseErr("ltm_not_positive")
    ELSE IF token.ltm.val > MAX_TOKEN_LIFETIME_SECONDS THEN ParseErr("ltm_too_long")
    ELSE IF token.beg.val + token.ltm.val < t THEN ParseErr("expired")
    ELSE ParseOk(token.beg.val + token.ltm.val)

(* ---------------------------- _is_token_valid -------------------------- *)
\* a validity check that still accepts the token at expiry - buffer
IsTokenValidAtBoundary(ts, t, buf) ==
    IF ts = None THEN FALSE
    ELSE t <= ts[1].expiry_timestamp - buf

\* a validity check that accepts the token until it expires
IsTokenValidUntilExpiry(ts, t, buf) ==
    IF ts = None THEN FALSE
    ELSE t < ts[1].expiry_timestamp

IsTokenValid(ts, t, buf) ==
    IF ts = None THEN FALSE
    ELSE t < ts[1].expiry_timestamp - buf

\* what the transport has seen so far (the mock client's call list)
Count(tr, e) == Cardinality({i \in DOMAIN tr : tr[i].e = e})
RECURSIVE Total(_, _, _)
Total(trs, e, n) == IF n = 0 THEN 0 ELSE Count(trs[n], e) + Total(trs, e, n - 1)

(* ----------------------- the state as one record ----------------------- *)
\* The mutable state a segment of code works on; a segment is a composition
\* of the operators below and Assign makes its outcome the next state.
Cur ==
    [token_state |-> token_state, lock_holder |-> lock_holder,
     lock_waiters |-> lock_waiters, op |-> op, pc |-> pc,
     result |-> result, trace |-> trace, register_cache |-> register_cache,
     frame |-> frame]

Assign(s) ==
    /\ token_state' = s.token_state
    /\ lock_holder' = s.lock_holder
    /\ lock_waiters' = s.lock_waiters
    /\ op' = s.op
    /\ pc' = s.pc
    /\ result' = s.result
    /\ trace' = s.trace
    /\ register_cache' = s.register_cache
    /\ frame' = s.frame
    /\ Total(s.trace, "GET nonce", Len(s.trace)) <= MaxAuth
    /\ UNCHANGED <<refresh_buffer_seconds, now, direct>>

Ev(e, tok) == [e |-> e, tok |-> tok]
Emit(s, p, e, tok) == [s EXCEPT !.trace[p] = Append(@, Ev(e, tok))]

Outcome(kind, tok, status) ==
    [kind |-> kind, token |-> tok, status |-> status, message |-> ""]
NoResult == Outcome("pending", NoToken, 0)

\* The call returns (or raises) to its caller.
Finish(s, p, r) == [s EXCEPT !.pc[p] = "done", !.result[p] = r]

(* ------------------------------ asyncio.Lock --------------------------- *)
\* acquire() returns at once iff the lock is unlocked and nobody waits;
\* otherwise the caller is appended to the FIFO and suspends.  release()
\* unlocks and wakes the first waiter, which takes the lock when it runs.
LockFree(s) == s.lock_holder = 0 /\ s.lock_waiters = <<>>
\* an acquire() that does not take the lock
AcquireNothing(s, p) == Emit(s, p, "acquire", NoToken)

Acquire(s, p) == Emit([s EXCEPT !.lock_holder = p], p, "acquire", NoToken)
Release(s, p) == [s EXCEPT !.lock_holder = 0]
Enqueue(s, p, at) == [s EXCEPT !.lock_waiters = Append(@, p), !.pc[p] = at]

(* --------------------------- _get_with_auth ---------------------------- *)
ResourceGets(tr) == Cardinality({i \in DOMAIN tr : tr[i].e = "GET resource"})
\* the GETs that the _get_with_auth which call p is in has sent
Attempts(s, p) ==
    Cardinality({i \in DOMAIN s.trace[p] :
                    i > s.frame[p].since /\ s.trace[p][i].e = "GET resource"})

\* a retry that reuses the headers of the first attempt
SendResourceSameHeaders(s, p, tok) ==
    LET sent == {i \in DOMAIN s.trace[p] : s.trace[p][i].e = "GET resource"}
        first == CHOOSE i \in sent : \A j \in sent : i <= j
    IN  [Emit(s, p, "GET resource", IF sent = {} THEN tok ELSE s.trace[p][first].tok)
            EXCEPT !.pc[p] = "resource"]

\* client.py:84-87 and 94-97: the GET with the bearer header
SendResource(s, p, tok) ==
    [Emit(s, p, "GET resource", tok) EXCEPT !.pc[p] = "resource"]

(* ------------------------------ get_token ------------------------------ *)
\* get_token() hands tok to its caller: the test/user task, or
\* _get_with_auth, which goes on to send the request without suspending.
ReturnToken(s, p, tok) ==
    LET s1 == Emit(s, p, "return", tok)
    IN  IF s.op[p] = "get_token"
        THEN Finish(s1, p, Outcome("token", tok, 0))
        ELSE SendResource(s1, p, tok)

\* _fetch_nonce up to its await
SendNonce(s, p) ==
    [Emit(s, p, "GET nonce", NoToken) EXCEPT !.pc[p] = "nonce"]

\* _perform_login up to its await
SendLogin(s, p) ==
    [Emit(s, p, "POST login", NoToken) EXCEPT !.pc[p] = "login"]

\* a get_token that does not look again once it has the lock
UnderLockNoRecheck(s, p) == SendNonce(s, p)

\* a get_token that, finding no valid token, takes over the error of a
\* refresh that has failed before it
UnderLockSharedFailure(s, p) ==
    LET failed == {q \in DOMAIN s.pc :
                      /\ s.pc[q] = "done" /\ s.op[q] = "get_token"
                      /\ s.result[q].kind # "token"}
    IN  IF IsTokenValid(s.token_state, now, refresh_buffer_seconds)
        THEN ReturnToken(Release(s, p), p, s.token_state[1].token)
        ELSE IF failed # {}
        THEN Finish(Release(s, p), p, s.result[CHOOSE q \in failed : TRUE])
        ELSE SendNonce(s, p)

\* get_token, inside "async with self._token_lock"
UnderLock(s, p) ==
    IF IsTokenValid(s.token_state, now, refresh_buffer_seconds)
    THEN ReturnToken(Release(s, p), p, s.token_state[1].token)
    ELSE SendNonce(s, p)

\* a get_token that always goes for the lock
GetTokenNoFastPath(s, p) ==
    IF LockFree(s)
    THEN UnderLock(Acquire(s, p), p)
    ELSE Enqueue(s, p, "lock_get")

\* a get_token whose fast path reads the token when an invalidation has
\* emptied the token state
GetTokenReadsEmpty(s, p) ==
    IF s.token_state = None /\ \E q \in DOMAIN s.trace : Count(s.trace[q], "clear") > 0
    THEN ReturnToken(s, p, NoToken)
    ELSE IF IsTokenValid(s.token_state, now, refresh_buffer_seconds)
    THEN ReturnToken(s, p, s.token_state[1].token)
    ELSE IF LockFree(s)
         THEN UnderLock(Acquire(s, p), p)
         ELSE Enqueue(s, p, "lock_get")

GetToken(s, p) ==
    IF IsTokenValid(s.token_state, now, refresh_buffer_seconds)
    THEN ReturnToken(s, p, s.token_state[1].token)
    ELSE IF LockFree(s)
         THEN UnderLock(Acquire(s, p), p)
         ELSE Enqueue(s, p, "lock_get")

(* ----------------------------- exceptions ------------------------------ *)
\* _get_with_auth(url, params), called by a client method for the request
\* named by stage
GetWithAuth(s, p, stage) ==
    GetToken([s EXCEPT !.frame[p].stage = stage,
                       !.frame[p].since = Len(s.trace[p])], p)

\* a handler that lets the error of the rights check through
RaiseSecondary(s, p, exc) ==
    IF /\ s.op[p] \in {"get_device_serial_number", "get_hostname"}
       /\ exc = "EgaugeAuthenticationError"
       /\ s.frame[p].stage = "request"
    THEN GetWithAuth([s EXCEPT !.frame[p].auth_error = Len(s.trace[p])],
                     p, "rights")
    ELSE Finish(s, p, Outcome(exc, NoToken, 0))

\* An exception is raised in call p.  It ends the call, except for the
\* EgaugeAuthenticationError that get_device_serial_number and get_hostname
\* catch around their request: they go on to get_user_rights(), and when
\* that raises EgaugeAuthenticationError too, they raise the one they caught.
Raise(s, p, exc) ==
    IF /\ s.op[p] \in {"get_device_serial_number", "get_hostname"}
       /\ exc = "EgaugeAuthenticationError"
    THEN IF s.frame[p].stage = "request"
         THEN GetWithAuth([s EXCEPT !.frame[p].auth_error = Len(s.trace[p])],
                          p, "rights")
         ELSE Finish([s EXCEPT !.frame[p].reraised = s.frame[p].auth_error],
                     p, Outcome(exc, NoToken, 0))
    ELSE Finish(s, p, Outcome(exc, NoToken, 0))

\* a refresh that falls back to the cached token when the new one is bad
CacheTokenFallback(s, p, tok) ==
    LET parsed == ParseJwtExpiry(tok, now)
    IN  IF ~parsed.ok
        THEN IF s.token_state = None
             THEN Raise(Release(s, p), p, "EgaugeParsingException")
             ELSE ReturnToken(Release(s, p), p, s.token_state[1].token)
        ELSE LET s1 == [s EXCEPT !.token_state =
                            <<TokenState(tok, parsed.expiry, now)>>]
             IN  ReturnToken(Release(Emit(s1, p, "store", NoToken), p), p, tok)

\* a refresh that stores the token first and parses its expiry afterwards
CacheTokenStoreFirst(s, p, tok) ==
    LET parsed == ParseJwtExpiry(tok, now)
        s1 == [s EXCEPT !.token_state = <<TokenState(tok, parsed.expiry, now)>>]
    IN  IF ~parsed.ok
        THEN Raise(Release(s1, p), p, "EgaugeParsingException")
        ELSE ReturnToken(Release(Emit(s1, p, "store", NoToken), p), p, tok)

\* _authenticate_and_cache after the login response: parse, cache, return
CacheToken(s, p, tok) ==
    LET parsed == ParseJwtExpiry(tok, now)
    IN  IF ~parsed.ok
        THEN Raise(Release(s, p), p, "EgaugeParsingException")
        ELSE LET s1 == [s EXCEPT !.token_state =
                            <<TokenState(tok, parsed.expiry, now)>>]
             IN  ReturnToken(Release(Emit(s1, p, "store", NoToken), p), p, tok)

(* --------------------------- invalidate_token -------------------------- *)
\* an invalidation that only drops tokens it finds expired
InvalidateLockedIfExpired(s, p) ==
    Release(Emit([s EXCEPT !.token_state =
                     IF IsTokenValid(@, now, refresh_buffer_seconds) THEN @ ELSE None],
                 p, "clear", NoToken), p)

InvalidateLocked(s, p) ==
    Release(Emit([s EXCEPT !.token_state = None], p, "clear", NoToken), p)

\* what follows the return of invalidate_token(): nothing for a direct
\* call, get_token() for the 401 recovery of _get_with_auth
AfterInvalidate(s, p) ==
    IF s.op[p] = "invalidate_token"
    THEN Finish(s, p, Outcome("returned", NoToken, 0))
    ELSE GetToken(s, p)

\* an invalidation that clears the token without taking the lock
InvalidateTokenUnlocked(s, p) ==
    AfterInvalidate(Emit([s EXCEPT !.token_state = None], p, "clear", NoToken), p)

InvalidateToken(s, p) ==
    IF LockFree(s)
    THEN AfterInvalidate(InvalidateLocked(Acquire(s, p), p), p)
    ELSE Enqueue(s, p, "lock_inv")

(* -------------------------------- logout ------------------------------- *)
\* a logout that keeps the token cached while it talks to the server
LogoutLockedKeepToken(s, p) ==
    IF s.token_state = None
    THEN Finish(Release(s, p), p, Outcome("returned", NoToken, 0))
    ELSE LET tok == s.token_state[1].token
             s1 == Emit(s, p, "clear", NoToken)
         IN  [Emit(Release(s1, p), p, "GET logout", tok) EXCEPT !.pc[p] = "logout"]

\* a logout that notifies the server whether or not it found a token
LogoutLockedAlwaysNotify(s, p) ==
    LET tok == IF s.token_state = None THEN NoToken ELSE s.token_state[1].token
        s1 == Emit([s EXCEPT !.token_state = None], p, "clear", NoToken)
    IN  [Emit(Release(s1, p), p, "GET logout", tok) EXCEPT !.pc[p] = "logout"]

LogoutLocked(s, p) ==
    IF s.token_state = None
    THEN Finish(Release(s, p), p, Outcome("returned", NoToken, 0))
    ELSE LET tok == s.token_state[1].token
             s1 == Emit([s EXCEPT !.token_state = None], p, "clear", NoToken)
         IN  [Emit(Release(s1, p), p, "GET logout", tok) EXCEPT !.pc[p] = "logout"]

Logout(s, p) ==
    IF LockFree(s)
    THEN LogoutLocked(Acquire(s, p), p)
    ELSE Enqueue(s, p, "lock_out")

(* --------------------------- get_register_info ------------------------- *)
\* RegisterType: the type codes of models.py
RegisterTypes ==
    {"#", "#3", "d", "P", "S", "var", "V", "I", "R", "Qe", "T", "h", "Pa",
     "aq", "F", "a", "THD", "Q", "Qv", "m", "v", "%", "$", "Ee", "ppm"}

\* An entry of the "registers" array of a response: keys are the fields
\* the JSON object has.
Reg(keys, name, type, idx, did) ==
    [keys |-> keys, name |-> name, type |-> type, idx |-> idx, did |-> did]

\* RegisterInfo; did is <<>> (None) for an entry without "did"
RegisterInfo(reg) ==
    [name |-> reg.name, type |-> reg.type, idx |-> reg.idx,
     did |-> IF "did" \in reg.keys THEN <<reg.did>> ELSE <<>>]

Built(ok, exc, map) == [ok |-> ok, exc |-> exc, map |-> map]
NoMapping == [n \in {} |-> 0]

\* client.py:124-144: the loop over the entries, from entry i on, with the
\* mapping built so far
RECURSIVE BuildRegisters(_, _, _)
BuildRegisters(regs, i, map) ==
    IF i > Len(regs) THEN Built(TRUE, "none", map)
    ELSE LET reg == regs[i]
         IN  IF "name" \notin reg.keys
             THEN Built(FALSE, "EgaugeParsingException", NoMapping)
             ELSE IF "type" \notin reg.keys
             THEN Built(FALSE, "EgaugeParsingException", NoMapping)
             ELSE IF "idx" \notin reg.keys
             THEN Built(FALSE, "EgaugeParsingException", NoMapping)
             ELSE IF reg.type \notin RegisterTypes
             THEN Built(FALSE, "ValueError", NoMapping)
             ELSE BuildRegisters(regs, i + 1,
                     [n \in DOMAIN map \cup {reg.name} |->
                         IF n = reg.name THEN RegisterInfo(reg) ELSE map[n]])

\* the value a client method returns
Value(v) == [kind |-> "value", token |-> NoToken, status |-> 0, value |-> v]

(* ------------------------------ type codes ----------------------------- *)
\* a quantum, as the fraction num / den
Quantum(num, den) == [num |-> num, den |-> den]
TypeCodeInfo(type_code, quantum) == [type_code |-> type_code, quantum |-> quantum]

\* a table that lacks the last of the type codes
TYPE_CODES_WithoutPpm ==
    [t \in RegisterTypes \ {"ppm"} |->
        TypeCodeInfo(t, IF t \in {"#", "d", "P", "S", "var", "R", "Pa", "Q", "Ee"}
                        THEN Quantum(1, 1) ELSE Quantum(1, 1000))]

\* type_codes.py: the table, keyed by type code
TYPE_CODES ==
    ("#" :> TypeCodeInfo("#", Quantum(1, 1)))
    @@ ("#3" :> TypeCodeInfo("#3", Quantum(1, 1000)))
    @@ ("d" :> TypeCodeInfo("d", Quantum(1, 1)))
    @@ ("P" :> TypeCodeInfo("P", Quantum(1, 1)))
    @@ ("S" :> TypeCodeInfo("S", Quantum(1, 1)))
    @@ ("var" :> TypeCodeInfo("var", Quantum(1, 1)))
    @@ ("V" :> TypeCodeInfo("V", Quantum(1, 1000)))
    @@ ("I" :> TypeCodeInfo("I", Quantum(1, 1000)))
    @@ ("R" :> TypeCodeInfo("R", Quantum(1, 1)))
    @@ ("Qe" :> TypeCodeInfo("Qe", Quantum(1, 1000)))
    @@ ("T" :> TypeCodeInfo("T", Quantum(1, 1000)))
    @@ ("h" :> TypeCodeInfo("h", Quantum(1, 1000)))
    @@ ("Pa" :> TypeCodeInfo("Pa", Quantum(1, 1)))
    @@ ("aq" :> TypeCodeInfo("aq", Quantum(1, 1000)))
    @@ ("F" :> TypeCodeInfo("F", Quantum(1, 1000)))
    @@ ("a" :> TypeCodeInfo("a", Quantum(1, 1000)))
    @@ ("THD" :> TypeCodeInfo("THD", Quantum(1, 1000)))
    @@ ("Q" :> TypeCodeInfo("Q", Quantum(1, 1)))
    @@ ("Qv" :> TypeCodeInfo("Qv", Quantum(1, 1000000000)))
    @@ ("m" :> TypeCodeInfo("m", Quantum(1, 1000)))
    @@ ("v" :> TypeCodeInfo("v", Quantum(1, 1000)))
    @@ ("%" :> TypeCodeInfo("%", Quantum(1, 1000)))
    @@ ("$" :> TypeCodeInfo("$", Quantum(1, 536870912)))
    @@ ("Ee" :> TypeCodeInfo("Ee", Quantum(1, 1)))
    @@ ("ppm" :> TypeCodeInfo("ppm", Quantum(1, 1000)))

\* raw_value * quantum
Physical(raw, quantum) == [num |-> raw * quantum.num, den |-> quantum.den]

(* ----------------------- parsing the responses ------------------------- *)
\* what parsing a body ends in: a value, or an exception and its message
Data(ok, exc, why, value) == [ok |-> ok, exc |-> exc, why |-> why, value |-> value]
Fail(exc, why) == Data(FALSE, exc, why, <<>>)

\* d[k] = v on a dict
Put(map, k, v) == [n \in DOMAIN map \cup {k} |-> IF n = k THEN v ELSE map[n]]

\* An entry of the "registers" array of a rate response.
RegRate(keys, name, type, idx, rate) ==
    [keys |-> keys, name |-> name, type |-> type, idx |-> idx, rate |-> rate]

\* The body of a response of /api/register: keys are the fields it has.
Body(keys, registers, ranges) ==
    [keys |-> keys, registers |-> registers, ranges |-> ranges]
\* An element of "ranges"; a row is a sequence of JSON values.
Range(keys, ts, delta, rows) ==
    [keys |-> keys, ts |-> ts, delta |-> delta, rows |-> rows]

\* data.get("registers", []) and data.get("ranges", [])
RegistersOf(data) == IF "registers" \in data.keys THEN data.registers ELSE <<>>
RangesOf(data) == IF "ranges" \in data.keys THEN data.ranges ELSE <<>>

\* a loop that skips the entries without a rate
RECURSIVE BuildMeasurementsSkipping(_, _, _)
BuildMeasurementsSkipping(regs, i, map) ==
    IF i > Len(regs) THEN Data(TRUE, "none", "", map)
    ELSE LET reg == regs[i]
         IN  IF "name" \notin reg.keys
             THEN Fail("EgaugeParsingException",
                       "Register missing 'name' field in response")
             ELSE IF "rate" \notin reg.keys
             THEN BuildMeasurementsSkipping(regs, i + 1, map)
             ELSE BuildMeasurementsSkipping(regs, i + 1,
                                            Put(map, reg.name, reg.rate))

\* client.py:184-193: the loop of get_current_measurements from entry i on
RECURSIVE BuildMeasurements(_, _, _)
BuildMeasurements(regs, i, map) ==
    IF i > Len(regs) THEN Data(TRUE, "none", "", map)
    ELSE LET reg == regs[i]
         IN  IF "name" \notin reg.keys
             THEN Fail("EgaugeParsingException",
                       "Register missing 'name' field in response")
             ELSE IF "rate" \notin reg.keys
             THEN Fail("EgaugeParsingException",
                       "Register missing 'rate' field in response")
             ELSE BuildMeasurements(regs, i + 1, Put(map, reg.name, reg.rate))

\* client.py:242-255 and 353-366: names and types of the registers array
RECURSIVE ParseRegistersList(_, _, _, _)
ParseRegistersList(regs, i, reg_names, reg_types) ==
    IF i > Len(regs)
    THEN Data(TRUE, "none", "", [reg_names |-> reg_names, reg_types |-> reg_types])
    ELSE LET r == regs[i]
         IN  IF "name" \notin r.keys
             THEN Fail("EgaugeParsingException",
                       "Register missing 'name' field in response")
             ELSE IF "type" \notin r.keys
             THEN Fail("EgaugeParsingException",
                       "Register missing 'type' field in response")
             ELSE IF r.type \notin RegisterTypes
             THEN Fail("ValueError", "not a valid RegisterType")
             ELSE ParseRegistersList(regs, i + 1, Append(reg_names, r.name),
                                     Append(reg_types, r.type))

\* a conversion that takes the quantum of the first register for every column
RECURSIVE ConvertRowFirstQuantum(_, _, _, _, _)
ConvertRowFirstQuantum(row, j, reg_names, reg_types, map) ==
    IF j > Len(row) THEN Data(TRUE, "none", "", map)
    ELSE IF row[j].kind \notin {"num", "str"}
    THEN Fail("ValueError", "invalid literal for int()")
    ELSE IF j > Len(reg_types)
    THEN Fail("IndexError", "list index out of range")
    ELSE IF reg_types[1] \notin DOMAIN TYPE_CODES
    THEN Fail("KeyError", reg_types[1])
    ELSE ConvertRowFirstQuantum(row, j + 1, reg_names, reg_types,
            Put(map, reg_names[j],
                Physical(row[j].val, TYPE_CODES[reg_types[1]].quantum)))

\* client.py:285-290 and 381-385: the columns of a row from column j on;
\* get_quantum raises KeyError for a type code the table lacks
RECURSIVE ConvertRow(_, _, _, _, _)
ConvertRow(row, j, reg_names, reg_types, map) ==
    IF j > Len(row) THEN Data(TRUE, "none", "", map)
    ELSE IF row[j].kind \notin {"num", "str"}
    THEN Fail("ValueError", "invalid literal for int()")
    ELSE IF j > Len(reg_types)
    THEN Fail("IndexError", "list index out of range")
    ELSE IF reg_types[j] \notin DOMAIN TYPE_CODES
    THEN Fail("KeyError", reg_types[j])
    ELSE ConvertRow(row, j + 1, reg_names, reg_types,
            Put(map, reg_names[j],
                Physical(row[j].val, TYPE_CODES[reg_types[j]].quantum)))

\* a parser that reads the first row of the first range, whatever follows
CurrentCountersFirstRow(data) ==
    LET regs == ParseRegistersList(RegistersOf(data), 1, <<>>, <<>>)
        ranges == RangesOf(data)
    IN  IF ~regs.ok THEN regs
        ELSE IF ranges = <<>>
        THEN Fail("EgaugeParsingException",
                  "Response missing 'ranges' array or array is empty")
        ELSE IF "rows" \notin ranges[1].keys
        THEN Fail("EgaugeParsingException", "Range object missing 'rows' field")
        ELSE IF ranges[1].rows = <<>>
        THEN Fail("EgaugeParsingException", "Range 'rows' array is empty")
        ELSE ConvertRow(ranges[1].rows[1], 1, regs.value.reg_names,
                        regs.value.reg_types, NoMapping)

\* client.py:239-292: get_current_counters on the body of the response
CurrentCounters(data) ==
    LET regs == ParseRegistersList(RegistersOf(data), 1, <<>>, <<>>)
        ranges == RangesOf(data)
    IN  IF ~regs.ok THEN regs
        ELSE IF ranges = <<>>
        THEN Fail("EgaugeParsingException",
                  "Response missing 'ranges' array or array is empty")
        ELSE IF Len(ranges) > 1
        THEN Fail("EgaugeParsingException", "Expected 1 range for time=now query")
        ELSE IF "rows" \notin ranges[1].keys
        THEN Fail("EgaugeParsingException", "Range object missing 'rows' field")
        ELSE IF ranges[1].rows = <<>>
        THEN Fail("EgaugeParsingException", "Range 'rows' array is empty")
        ELSE IF Len(ranges[1].rows) > 1
        THEN Fail("EgaugeParsingException", "Expected 1 row for time=now query")
        ELSE ConvertRow(ranges[1].rows[1], 1, regs.value.reg_names,
                        regs.value.reg_types, NoMapping)

\* rows that are all stamped with the anchor of their range
RECURSIVE HistoricalRowsAtAnchor(_, _, _, _, _)
HistoricalRowsAtAnchor(range, i, reg_names, reg_types, rows_so_far) ==
    IF i > Len(range.rows) THEN Data(TRUE, "none", "", rows_so_far)
    ELSE IF range.delta.kind # "num"
    THEN Fail("TypeError", "unsupported operand type(s)")
    ELSE LET row_dict == ConvertRow(range.rows[i], 1, reg_names, reg_types,
                                    "ts" :> range.ts.val)
         IN  IF ~row_dict.ok THEN row_dict
             ELSE HistoricalRowsAtAnchor(range, i + 1, reg_names, reg_types,
                                         Append(rows_so_far, row_dict.value))

\* client.py:374-389: the rows of one range from row i on (i counts from 1
\* here, from 0 in the code)
RECURSIVE HistoricalRows(_, _, _, _, _)
HistoricalRows(range, i, reg_names, reg_types, rows_so_far) ==
    IF i > Len(range.rows) THEN Data(TRUE, "none", "", rows_so_far)
    ELSE IF range.delta.kind # "num"
    THEN Fail("TypeError", "unsupported operand type(s)")
    ELSE LET row_ts == range.ts.val - (i - 1) * range.delta.val
             row_dict == ConvertRow(range.rows[i], 1, reg_names, reg_types,
                                    "ts" :> row_ts)
         IN  IF ~row_dict.ok THEN row_dict
             ELSE HistoricalRows(range, i + 1, reg_names, reg_types,
                                 Append(rows_so_far, row_dict.value))

\* client.py:370-389: the ranges from range k on
RECURSIVE HistoricalRanges(_, _, _, _, _)
HistoricalRanges(ranges, k, reg_names, reg_types, rows_so_far) ==
    IF k > Len(ranges) THEN Data(TRUE, "none", "", rows_so_far)
    ELSE LET range == ranges[k]
         IN  IF "ts" \notin range.keys THEN Fail("KeyError", "ts")
             ELSE IF range.ts.kind \notin {"num", "str"}
             THEN Fail("ValueError", "could not convert string to float")
             ELSE IF "delta" \notin range.keys THEN Fail("KeyError", "delta")
             ELSE IF "rows" \notin range.keys THEN Fail("KeyError", "rows")
             ELSE LET rows == HistoricalRows(range, 1, reg_names, reg_types, rows_so_far)
                  IN  IF ~rows.ok THEN rows
                      ELSE HistoricalRanges(ranges, k + 1, reg_names, reg_types,
                                            rows.value)

\* client.py:350-391: get_historical_counters on the body of the response
HistoricalCounters(data) ==
    LET regs == ParseRegistersList(RegistersOf(data), 1, <<>>, <<>>)
    IN  IF ~regs.ok THEN regs
        ELSE HistoricalRanges(RangesOf(data), 1, regs.value.reg_names,
                              regs.value.reg_types, <<>>)

(* --------------------------- client methods ---------------------------- *)
\* an exception with a message that no caller of it catches
RaiseMsg(s, p, exc, msg) ==
    Finish(s, p, [Outcome(exc, NoToken, 0) EXCEPT !.message = msg])

\* a method returns what it has parsed, or raises
ReturnData(s, p, parsed) ==
    IF parsed.ok THEN Finish(s, p, Value(parsed.value))
    ELSE RaiseMsg(s, p, parsed.exc, parsed.why)

\* the positions of the names of a filter that the catalog lacks
UnknownAt(registers, reg_info) ==
    {i \in DOMAIN registers : registers[i] \notin DOMAIN reg_info}

\* a filter that leaves out the names it does not find
ResolveRegistersLenient(s, p, reg_info) ==
    LET registers == s.frame[p].registers[1]
        known == SelectSeq(registers, LAMBDA r : r \in DOMAIN reg_info)
    IN  GetWithAuth([s EXCEPT !.frame[p].reg =
                        [i \in DOMAIN known |-> reg_info[known[i]].idx]],
                    p, "request")

\* a filter that asks for each register once, in the order of the catalog
ResolveRegistersOnce(s, p, reg_info) ==
    LET registers == s.frame[p].registers[1]
        unknown == UnknownAt(registers, reg_info)
        idxs == {reg_info[registers[i]].idx : i \in DOMAIN registers}
    IN  IF unknown # {}
        THEN RaiseMsg(s, p, "EgaugeUnknownRegisterError",
                      registers[CHOOSE i \in unknown : \A j \in unknown : i <= j])
        ELSE GetWithAuth([s EXCEPT !.frame[p].reg =
                             CHOOSE q \in [1..Cardinality(idxs) -> idxs] :
                                 \A i, j \in DOMAIN q : i < j => q[i] < q[j]],
                         p, "request")

\* client.py:166-178, 227-236, 337-346: the names of the filter are looked
\* up in the catalog, and the request is made with their indices
ResolveRegisters(s, p, reg_info) ==
    LET registers == s.frame[p].registers[1]
        unknown == UnknownAt(registers, reg_info)
    IN  IF unknown # {}
        THEN RaiseMsg(s, p, "EgaugeUnknownRegisterError",
                      registers[CHOOSE i \in unknown : \A j \in unknown : i <= j])
        ELSE GetWithAuth([s EXCEPT !.frame[p].reg =
                             [i \in DOMAIN registers |-> reg_info[registers[i]].idx]],
                         p, "request")

\* get_register_info returns the mapping to its caller: the user task, or
\* one of the measurement methods
ReturnRegisterInfo(s, p, reg_info) ==
    IF s.op[p] = "get_register_info"
    THEN Finish(s, p, Value(reg_info))
    ELSE ResolveRegisters(s, p, reg_info)

\* a fetch that adds its entries to the mapping already cached
RegisterInfoResponseMerge(s, p, resp) ==
    IF resp.status >= 400
    THEN Raise(s, p, "HTTPStatusError")
    ELSE LET built == BuildRegisters(resp.registers, 1,
                         IF s.register_cache = None THEN NoMapping
                         ELSE s.register_cache[1])
         IN  IF ~built.ok
             THEN Raise(s, p, built.exc)
             ELSE ReturnRegisterInfo([s EXCEPT !.register_cache = <<built.map>>],
                                     p, built.map)

\* get_register_info after _get_with_auth has returned the response
RegisterInfoResponse(s, p, resp) ==
    IF resp.status >= 400
    THEN Raise(s, p, "HTTPStatusError")
    ELSE LET built == BuildRegisters(resp.registers, 1, NoMapping)
         IN  IF ~built.ok
             THEN Raise(s, p, built.exc)
             ELSE ReturnRegisterInfo([s EXCEPT !.register_cache = <<built.map>>],
                                     p, built.map)

\* client.py:404-415: get_user_rights after _get_with_auth has returned;
\* client.py:438-443 and 478-483: the rights were got for the handler of
\* get_device_serial_number or get_hostname, which raises
\* EgaugePermissionError
UserRightsResponse(s, p, resp) ==
    IF resp.status >= 400
    THEN Raise(s, p, "HTTPStatusError")
    ELSE LET s1 == [s EXCEPT !.frame[p].data = resp.data]
         IN  IF "usr" \notin resp.data.keys
             THEN RaiseMsg(s1, p, "EgaugeParsingException",
                           "User rights response missing 'usr' field")
             ELSE IF "rights" \notin resp.data.keys
             THEN RaiseMsg(s1, p, "EgaugeParsingException",
                           "User rights response missing 'rights' field")
             ELSE IF s.op[p] = "get_user_rights"
             THEN Finish(s1, p, Value([usr |-> resp.data.usr,
                                       rights |-> resp.data.rights]))
             ELSE RaiseMsg(s1, p, "EgaugePermissionError", resp.data.usr)

\* the request of a client method has been answered: raise_for_status(),
\* then the body is parsed
RequestResponse(s, p, resp) ==
    IF resp.status >= 400
    THEN Raise(s, p, "HTTPStatusError")
    ELSE LET s1 == [s EXCEPT !.frame[p].data = resp.data]
         IN  CASE s.op[p] = "get_current_measurements" ->
                    ReturnData(s1, p, BuildMeasurements(RegistersOf(resp.data),
                                                        1, NoMapping))
               [] s.op[p] = "get_current_counters" ->
                    ReturnData(s1, p, CurrentCounters(resp.data))
               [] s.op[p] = "get_historical_counters" ->
                    ReturnData(s1, p, HistoricalCounters(resp.data))
               [] s.op[p] \in {"get_device_serial_number", "get_hostname"} ->
                    IF "result" \notin resp.data.keys
                    THEN RaiseMsg(s1, p, "EgaugeParsingException",
                                  "response missing 'result' field")
                    ELSE Finish(s1, p, Value(resp.data.result))

\* _get_with_auth returns the response to the method that called it
ReturnResponse(s, p, resp) ==
    CASE s.frame[p].stage = "catalog" -> RegisterInfoResponse(s, p, resp)
      [] s.frame[p].stage = "rights" -> UserRightsResponse(s, p, resp)
      [] s.frame[p].stage = "request" -> RequestResponse(s, p, resp)
      [] OTHER -> Finish(s, p, Outcome("response", NoToken, resp.status))

\* client.py:164, 223, 331: registers is not None and len(registers) > 0;
\* the argument is None, or <<names>> for a list of names
Filtered(registers) == registers # None /\ Len(registers[1]) > 0

\* a cache test that takes an empty mapping for no mapping
GetRegisterInfoIfNonEmpty(s, p) ==
    IF s.register_cache # None /\ DOMAIN s.register_cache[1] # {}
    THEN ReturnRegisterInfo(s, p, s.register_cache[1])
    ELSE GetWithAuth(s, p, "catalog")

\* client.py:114-118
GetRegisterInfo(s, p) ==
    IF s.register_cache # None
    THEN ReturnRegisterInfo(s, p, s.register_cache[1])
    ELSE GetWithAuth(s, p, "catalog")

\* a method that looks at the catalog for any list, empty or not
MeasureAnyList(s, p) ==
    IF s.frame[p].registers # None
    THEN GetRegisterInfo(s, p)
    ELSE GetWithAuth(s, p, "request")

\* client.py:163-180, 223-238, 333-348: a measurement method up to its
\* request
Measure(s, p) ==
    IF Filtered(s.frame[p].registers)
    THEN GetRegisterInfo(s, p)
    ELSE GetWithAuth(s, p, "request")

(* ------------------------- the server's answers ------------------------ *)
NetErr == [kind |-> "neterr", status |-> 0]
Http(st) == [kind |-> "http", status |-> st]

\* /api/auth/unauthorized: fields says whether rlm and nnc are in the body
NonceResponses ==
    {[kind |-> "http", status |-> 401, fields |-> TRUE],
     [kind |-> "http", status |-> 401, fields |-> FALSE],
     [kind |-> "http", status |-> 200, fields |-> TRUE],
     [kind |-> "http", status |-> 500, fields |-> FALSE],
     [kind |-> "neterr", status |-> 0, fields |-> FALSE]}

\* the tokens a login may hand out at time t
Jwts(t, serial) ==
    {Jwt(3, TRUE, Num(t), Num(l), serial) : l \in {0, 90, 86400, 86401}}
    \cup {Jwt(3, TRUE, Num(t - 30), Num(30), serial),
          Jwt(3, TRUE, Num(t - 60), Num(30), serial),
          Jwt(3, TRUE, Missing, Num(86400), serial),
          Jwt(3, TRUE, Num(t), BadStr, serial),
          Jwt(3, FALSE, Missing, Missing, serial),
          Jwt(1, FALSE, Missing, Missing, serial)}

LoginBody(st, err, jwt, tok) ==
    [kind |-> "http", status |-> st, error |-> err, jwt |-> jwt, token |-> tok]

\* /api/auth/login
LoginResponses(t, serial) ==
    {LoginBody(200, FALSE, TRUE, tok) : tok \in Jwts(t, serial)}
    \cup {LoginBody(200, TRUE, TRUE, Jwt(3, TRUE, Num(t), Num(86400), serial)),
          LoginBody(200, TRUE, FALSE, NoToken),
          LoginBody(200, FALSE, FALSE, NoToken),
          LoginBody(500, FALSE, FALSE, NoToken),
          LoginBody(401, FALSE, TRUE, Jwt(3, TRUE, Num(t), Num(86400), serial)),
          [kind |-> "neterr", status |-> 0, error |-> FALSE, jwt |-> FALSE,
           token |-> NoToken]}

\* the trace entry for an answer to a resource or logout request
Recv(resp) ==
    IF resp.kind = "neterr" THEN "recv error"
    ELSE IF resp.status = 200 THEN "recv 200"
    ELSE IF resp.status = 401 THEN "recv 401"
    ELSE "recv 500"

LogoutResponses == {Http(200), Http(500), NetErr}

NonceGets == Total(trace, "GET nonce", Len(trace))
LoginPosts == Total(trace, "POST login", Len(trace))

(* ------------------------------- actions ------------------------------- *)
\* calls are numbered in the order in which they are made
MayStart(p) == pc[p] = "idle" /\ (IF p = 1 THEN TRUE ELSE pc[p - 1] # "idle")

StartGetToken(p) ==
    /\ MayStart(p)
    /\ Assign(GetToken([Cur EXCEPT !.op[p] = "get_token"], p))

StartInvalidateToken(p) ==
    /\ MayStart(p)
    /\ Assign(InvalidateToken([Cur EXCEPT !.op[p] = "invalidate_token"], p))

StartLogout(p) ==
    /\ MayStart(p)
    /\ Assign(Logout([Cur EXCEPT !.op[p] = "logout"], p))

\* client.py:83
StartGetWithAuth(p) ==
    /\ MayStart(p)
    /\ Assign(GetToken([Cur EXCEPT !.op[p] = "_get_with_auth"], p))

\* the first waiter runs after a release and takes the lock
LockGranted(p) ==
    /\ lock_holder = 0
    /\ lock_waiters # <<>>
    /\ Head(lock_waiters) = p
    /\ LET s0 == Acquire([Cur EXCEPT !.lock_waiters = Tail(@)], p)
       IN  Assign(CASE pc[p] = "lock_get" -> UnderLock(s0, p)
                    [] pc[p] = "lock_inv" -> AfterInvalidate(InvalidateLocked(s0, p), p)
                    [] pc[p] = "lock_out" -> LogoutLocked(s0, p))

\* a nonce step that takes the nonce from any answer that carries one
NonceResponseAnyStatus(p, resp) ==
    /\ pc[p] = "nonce"
    /\ Assign(IF resp.kind = "neterr"
              THEN Raise(Release(Cur, p), p, "TransportError")
              ELSE IF ~resp.fields
              THEN Raise(Release(Cur, p), p, "KeyError")
              ELSE SendLogin(Cur, p))

\* a nonce step whose errors leave the lock held
NonceResponseKeepsLock(p, resp) ==
    /\ pc[p] = "nonce"
    /\ Assign(IF resp.kind = "neterr"
              THEN Raise(Cur, p, "TransportError")
              ELSE IF resp.status # 401
              THEN Raise(Cur, p, "EgaugeAuthenticationError")
              ELSE IF ~resp.fields
              THEN Raise(Cur, p, "KeyError")
              ELSE SendLogin(Cur, p))

\* _fetch_nonce after its await, then _perform_login up to its await
NonceResponse(p, resp) ==
    /\ pc[p] = "nonce"
    /\ Assign(IF resp.kind = "neterr"
              THEN Raise(Release(Cur, p), p, "TransportError")
              ELSE IF resp.status # 401
              THEN Raise(Release(Cur, p), p, "EgaugeAuthenticationError")
              ELSE IF ~resp.fields
              THEN Raise(Release(Cur, p), p, "KeyError")
              ELSE SendLogin(Cur, p))

\* a login step that drops the stored token when the login is refused
LoginResponseForgetsToken(p, resp) ==
    /\ pc[p] = "login"
    /\ Assign(IF resp.kind = "neterr"
              THEN Raise(Release(Cur, p), p, "TransportError")
              ELSE IF resp.status # 200
              THEN Raise(Release([Cur EXCEPT !.token_state = None], p), p,
                         "EgaugeAuthenticationError")
              ELSE IF resp.error
              THEN Raise(Release(Cur, p), p, "EgaugeAuthenticationError")
              ELSE IF ~resp.jwt
              THEN Raise(Release(Cur, p), p, "EgaugeParsingException")
              ELSE CacheToken(Cur, p, resp.token))

\* a login step that takes the jwt field whenever the body has one
LoginResponseJwtFirst(p, resp) ==
    /\ pc[p] = "login"
    /\ Assign(IF resp.kind = "neterr"
              THEN Raise(Release(Cur, p), p, "TransportError")
              ELSE IF resp.status # 200
              THEN Raise(Release(Cur, p), p, "EgaugeAuthenticationError")
              ELSE IF resp.jwt
              THEN CacheToken(Cur, p, resp.token)
              ELSE IF resp.error
              THEN Raise(Release(Cur, p), p, "EgaugeAuthenticationError")
              ELSE Raise(Release(Cur, p), p, "EgaugeParsingException"))

\* _perform_login after its await, then the rest of _authenticate_and_cache
LoginResponse(p, resp) ==
    /\ pc[p] = "login"
    /\ Assign(IF resp.kind = "neterr"
              THEN Raise(Release(Cur, p), p, "TransportError")
              ELSE IF resp.status # 200
              THEN Raise(Release(Cur, p), p, "EgaugeAuthenticationError")
              ELSE IF resp.error
              THEN Raise(Release(Cur, p), p, "EgaugeAuthenticationError")
              ELSE IF ~resp.jwt
              THEN Raise(Release(Cur, p), p, "EgaugeParsingException")
              ELSE CacheToken(Cur, p, resp.token))

\* a request that keeps retrying after a second 401
ResourceResponseRetryAgain(p, resp) ==
    /\ pc[p] = "resource"
    /\ LET s0 == Emit(Cur, p, Recv(resp), NoToken)
       IN  Assign(IF resp.kind = "neterr"
                  THEN Raise(s0, p, "TransportError")
                  ELSE IF resp.status # 401
                  THEN ReturnResponse(s0, p, resp)
                  ELSE IF Attempts(Cur, p) <= 2
                  THEN InvalidateToken(s0, p)
                  ELSE Raise(s0, p, "EgaugeAuthenticationError"))

\* _get_with_auth after the await of a resource GET
ResourceResponse(p, resp) ==
    /\ pc[p] = "resource"
    /\ LET s0 == Emit(Cur, p, Recv(resp), NoToken)
       IN  Assign(IF resp.kind = "neterr"
                  THEN Raise(s0, p, "TransportError")
                  ELSE IF resp.status # 401
                  THEN ReturnResponse(s0, p, resp)
                  ELSE IF Attempts(Cur, p) = 1
                  THEN InvalidateToken(s0, p)
                  ELSE Raise(s0, p, "EgaugeAuthenticationError"))

\* a logout that empties the token state once more when the server has
\* answered
LogoutResponseClearsAgain(p, resp) ==
    /\ pc[p] = "logout"
    /\ LET s0 == Emit([Cur EXCEPT !.token_state = None], p, Recv(resp), NoToken)
       IN  Assign(IF resp.kind = "neterr"
                  THEN Raise(s0, p, "TransportError")
                  ELSE IF resp.status # 200
                  THEN Raise(s0, p, "EgaugeAuthenticationError")
                  ELSE Finish(s0, p, Outcome("returned", NoToken, 0)))

\* logout after the await of its GET
LogoutResponse(p, resp) ==
    /\ pc[p] = "logout"
    /\ LET s0 == Emit(Cur, p, Recv(resp), NoToken)
       IN  Assign(IF resp.kind = "neterr"
                  THEN Raise(s0, p, "TransportError")
                  ELSE IF resp.status # 200
                  THEN Raise(s0, p, "EgaugeAuthenticationError")
                  ELSE Finish(s0, p, Outcome("returned", NoToken, 0)))

\* time passes
Tick(d) ==
    /\ now + d <= d * MaxTicks
    /\ now' = now + d
    /\ UNCHANGED <<token_state, lock_holder, lock_waiters,
                   refresh_buffer_seconds, op, pc, result, trace, direct,
                   register_cache, frame>>

(* ---------------------------- specification ---------------------------- *)
\* JwtAuthManager.__init__ with an accepted refresh buffer
Init ==
    /\ token_state = None
    /\ lock_holder = 0
    /\ lock_waiters = <<>>
    /\ refresh_buffer_seconds \in RefreshBuffers
    /\ now = 0
    /\ op = [p \in Calls |-> "none"]
    /\ pc = [p \in Calls |-> "idle"]
    /\ result = [p \in Calls |-> NoResult]
    /\ trace = [p \in Calls |-> <<>>]
    /\ direct = NoDirect
    /\ register_cache = None
    /\ frame = [p \in Calls |-> NoFrame]

\* The manager used directly: get_token, invalidate_token and logout calls.
Next ==
    \/ \E p \in Calls : StartGetToken(p)
    \/ \E p \in Calls : StartInvalidateToken(p)
    \/ \E p \in Calls : StartLogout(p)
    \/ \E p \in Calls : LockGranted(p)
    \/ \E p \in Calls : \E resp \in NonceResponses : NonceResponse(p, resp)
    \/ \E p \in Calls : \E resp \in LoginResponses(now, LoginPosts) :
            LoginResponse(p, resp)
    \/ \E p \in Calls : \E resp \in LogoutResponses : LogoutResponse(p, resp)
    \/ \E d \in TickSeconds : Tick(d)

Spec == Init /\ [][Next]_vars

\* the answers explored when the requests of the client are followed
ClientNonceResponses ==
    {[kind |-> "http", status |-> 401, fields |-> TRUE],
     [kind |-> "http", status |-> 200, fields |-> TRUE]}

\* a login is refused, or yields a token that outlives the default buffer
\* by one tick of the clock
ClientLoginResponses(t, serial) ==
    {LoginBody(200, FALSE, TRUE, Jwt(3, TRUE, Num(t), Num(90), serial)),
     LoginBody(500, FALSE, FALSE, NoToken)}

ClientResourceResponses == {Http(200), Http(401)}

\* The manager used through the client: requests made with _get_with_auth.
\* The client builds its manager with the default refresh buffer.
InitClient ==
    /\ token_state = None
    /\ lock_holder = 0
    /\ lock_waiters = <<>>
    /\ refresh_buffer_seconds = DefaultRefreshBuffer
    /\ now = 0
    /\ op = [p \in Requests |-> "none"]
    /\ pc = [p \in Requests |-> "idle"]
    /\ result = [p \in Requests |-> NoResult]
    /\ trace = [p \in Requests |-> <<>>]
    /\ direct = NoDirect
    /\ register_cache = None
    /\ frame = [p \in Requests |-> NoFrame]

NextClient ==
    \/ \E p \in Requests : StartGetWithAuth(p)
    \/ \E p \in Requests : LockGranted(p)
    \/ \E p \in Requests : \E resp \in ClientNonceResponses : NonceResponse(p, resp)
    \/ \E p \in Requests : \E resp \in ClientLoginResponses(now, LoginPosts) :
            LoginResponse(p, resp)
    \/ \E p \in Requests : \E resp \in ClientResourceResponses :
            ResourceResponse(p, resp)
    \/ \E d \in TickSeconds : Tick(d)

SpecClient == InitClient /\ [][NextClient]_vars

(* ------------------------ the register catalog ------------------------ *)
\* client.py:108
StartGetRegisterInfo(p) ==
    /\ MayStart(p)
    /\ Assign(GetRegisterInfo([Cur EXCEPT !.op[p] = "get_register_info"], p))

\* entries of the answers of /api/register
RegGrid == Reg({"name", "type", "idx", "did"}, "Grid", "P", 17, 0)
RegTotal == Reg({"name", "type", "idx"}, "Total Usage", "P", 3, 0)
RegVolts == Reg({"name", "type", "idx", "did"}, "L1 Voltage", "V", 3, 2)

RegNoType == Reg({"name", "idx", "did"}, "Solar", "P", 5, 1)
RegBadType == Reg({"name", "type", "idx", "did"}, "Solar", "kWh", 5, 1)

CatalogBodies ==
    {<<>>, <<RegGrid>>, <<RegTotal, RegVolts>>, <<RegGrid, RegNoType>>,
     <<RegBadType>>}

\* the answers explored for /api/register (how a 401 is recovered from is
\* followed in SpecClient)
CatalogResponses ==
    {[kind |-> "http", status |-> 200, registers |-> b] : b \in CatalogBodies}
    \cup {Http(500)}

\* a client, its manager built with the default refresh buffer
InitCatalog ==
    /\ token_state = None
    /\ lock_holder = 0
    /\ lock_waiters = <<>>
    /\ refresh_buffer_seconds = DefaultRefreshBuffer
    /\ now = 0
    /\ op = [p \in Calls |-> "none"]
    /\ pc = [p \in Calls |-> "idle"]
    /\ result = [p \in Calls |-> NoResult]
    /\ trace = [p \in Calls |-> <<>>]
    /\ direct = NoDirect
    /\ register_cache = None
    /\ frame = [p \in Calls |-> NoFrame]

\* get_register_info calls on the client, invalidate_token and logout
\* calls on its manager, at one instant of the clock
NextCatalog ==
    \/ \E p \in Calls : StartGetRegisterInfo(p)
    \/ \E p \in Calls : StartInvalidateToken(p)
    \/ \E p \in Calls : StartLogout(p)
    \/ \E p \in Calls : LockGranted(p)
    \/ \E p \in Calls : \E resp \in ClientNonceResponses : NonceResponse(p, resp)
    \/ \E p \in Calls : \E resp \in ClientLoginResponses(now, LoginPosts) :
            LoginResponse(p, resp)
    \/ \E p \in Calls : \E resp \in CatalogResponses : ResourceResponse(p, resp)
    \/ \E p \in Calls : \E resp \in LogoutResponses : LogoutResponse(p, resp)

SpecCatalog == InitCatalog /\ [][NextCatalog]_vars

(* ------------------- the client used by one task ----------------------- *)
\* One task calls the methods of the client one after the other.
Session == {1}
MayCall(p) == pc[p] \in {"idle", "done"}

\* the task makes a call: the method starts with fresh local variables
Call(p, method, registers) ==
    [Cur EXCEPT !.op[p] = method, !.result[p] = NoResult, !.trace[p] = <<>>,
                !.frame[p] = [NoFrame EXCEPT !.registers = registers]]

MeasureMethods ==
    {"get_current_measurements", "get_current_counters", "get_historical_counters"}
SettingsMethods == {"get_device_serial_number", "get_hostname"}

\* get_current_measurements(registers), get_current_counters(registers),
\* get_historical_counters(start, end, step, registers); registers is None
\* or <<names>>
StartMeasure(p, method, registers) ==
    /\ MayCall(p)
    /\ Assign(Measure(Call(p, method, registers), p))

StartGetUserRights(p) ==
    /\ MayCall(p)
    /\ Assign(GetWithAuth(Call(p, "get_user_rights", None), p, "rights"))

\* get_device_serial_number() and get_hostname()
StartSettings(p, method) ==
    /\ MayCall(p)
    /\ Assign(GetWithAuth(Call(p, method, None), p, "request"))

\* the filters the task asks for; the device has Grid and L1 Voltage
Filters ==
    {None, <<<<>>>>, <<<<"Grid">>>>, <<<<"L1 Voltage", "Grid">>>>,
     <<<<"Grid", "L1 Voltage", "Grid">>>>, <<<<"Wind", "Grid">>>>,
     <<<<"Grid", "Solar", "Wind">>>>}

Ok(data) == [kind |-> "http", status |-> 200, data |-> data]

\* /api/register without parameters
DataCatalogResponses ==
    {[kind |-> "http", status |-> 200, registers |-> <<RegGrid, RegVolts>>],
     [kind |-> "http", status |-> 200, registers |-> <<>>],
     Http(401)}

\* /api/register?rate
RateGrid == RegRate({"name", "type", "idx", "rate"}, "Grid", "P", 17, 1500)
RateVolts == RegRate({"name", "type", "idx", "rate"}, "L1 Voltage", "V", 3, 120)
RateBodies ==
    {Body({"registers"}, regs, <<>>) :
        regs \in {<<>>, <<RateGrid>>, <<RateGrid, RateVolts>>,
                  <<RateGrid, [RateVolts EXCEPT !.keys = @ \ {"rate"}]>>,
                  <<[RateGrid EXCEPT !.keys = @ \ {"rate"}], RateVolts>>,
                  <<RateGrid, [RateVolts EXCEPT !.keys = @ \ {"name"}]>>,
                  <<RateGrid, RateVolts, [RateGrid EXCEPT !.rate = -7]>>}}
    \cup {Body({}, <<>>, <<>>)}

\* /api/register?time=...: the registers array, then rows of raw counters
RegMoney == Reg({"name", "type", "idx", "did"}, "Cost", "$", 8, 4)
RegFlow == Reg({"name", "type", "idx", "did"}, "Water", "Qv", 9, 5)
RowNow == <<NumStr(7494425), NumStr(120000000)>>
RowThen == <<NumStr(7400000), NumStr(119000000)>>
RowOld == <<Num(-5), NumStr(0)>>
RangeNow == Range({"ts", "delta", "rows"}, NumStr(1678298313), Num(60), <<RowNow>>)
RangeTwoRows == [RangeNow EXCEPT !.rows = <<RowNow, RowThen>>]
RangeOld ==
    Range({"ts", "delta", "rows"}, Num(1678290000), Num(900),
          <<RowThen, RowOld, RowOld>>)

CounterBodies ==
    {Body({"registers", "ranges"}, <<RegGrid, RegVolts>>, ranges) :
        ranges \in {<<>>, <<RangeNow>>, <<RangeTwoRows>>, <<RangeNow, RangeOld>>,
                    <<RangeTwoRows, RangeOld>>,
                    <<[RangeNow EXCEPT !.rows = <<>>]>>,
                    <<[RangeNow EXCEPT !.keys = @ \ {"rows"}]>>,
                    <<[RangeNow EXCEPT !.keys = @ \ {"ts"}]>>,
                    <<[RangeNow EXCEPT !.keys = @ \ {"delta"}]>>,
                    <<[RangeNow EXCEPT !.ts = BadStr]>>,
                    <<[RangeNow EXCEPT !.rows = <<<<NumStr(1), BadStr>>>>]>>,
                    <<[RangeNow EXCEPT !.rows = <<<<NumStr(1)>>>>]>>,
                    <<[RangeNow EXCEPT !.rows =
                          <<<<NumStr(1), NumStr(2), NumStr(3)>>>>]>>}}
    \cup {Body({"registers"}, <<RegGrid, RegVolts>>, <<>>),
          Body({"ranges"}, <<>>, <<RangeNow>>),
          Body({"registers", "ranges"}, <<RegMoney, RegFlow>>, <<RangeNow>>),
          Body({"registers", "ranges"}, <<RegVolts, RegGrid>>, <<RangeNow>>),
          Body({"registers", "ranges"}, <<RegGrid, RegNoType>>, <<RangeNow>>),
          Body({"registers", "ranges"}, <<RegGrid, RegBadType>>, <<RangeNow>>)}

\* /api/sys/sn and /api/config/net/hostname
SettingsBodies == {[keys |-> {"result"}, result |-> "G10400"], [keys |-> {}, result |-> ""]}

\* /api/auth/rights
RightsBodies ==
    {[keys |-> k, usr |-> "owner", rights |-> <<"view">>] :
        k \in {{"usr", "rights"}, {"usr"}, {"rights"}}}

\* the answers to the request that call p is waiting for
DataResponses(p) ==
    CASE frame[p].stage = "catalog" -> DataCatalogResponses
      [] frame[p].stage = "rights" ->
            {Ok(d) : d \in RightsBodies} \cup {Http(401), Http(500)}
      [] frame[p].stage = "request" /\ op[p] = "get_current_measurements" ->
            {Ok(d) : d \in RateBodies} \cup {Http(401), Http(500)}
      [] frame[p].stage = "request" /\ op[p] \in SettingsMethods ->
            {Ok(d) : d \in SettingsBodies} \cup {Http(401), Http(500)}
      [] OTHER -> {Ok(d) : d \in CounterBodies} \cup {Http(401), Http(500)}

InitData ==
    /\ token_state = None
    /\ lock_holder = 0
    /\ lock_waiters = <<>>
    /\ refresh_buffer_seconds = DefaultRefreshBuffer
    /\ now = 0
    /\ op = [p \in Session |-> "none"]
    /\ pc = [p \in Session |-> "idle"]
    /\ result = [p \in Session |-> NoResult]
    /\ trace = [p \in Session |-> <<>>]
    /\ direct = NoDirect
    /\ register_cache = None
    /\ frame = [p \in Session |-> NoFrame]

NextData ==
    \/ \E p \in Session : \E m \in MeasureMethods : \E r \in Filters :
          StartMeasure(p, m, r)
    \/ \E p \in Session : StartGetUserRights(p)
    \/ \E p \in Session : \E m \in SettingsMethods : StartSettings(p, m)
    \/ \E p \in Session : \E resp \in ClientNonceResponses : NonceResponse(p, resp)
    \/ \E p \in Session : \E resp \in ClientLoginResponses(now, LoginPosts) :
          LoginResponse(p, resp)
    \/ \E p \in Session : \E resp \in DataResponses(p) : ResourceResponse(p, resp)
    \/ \E d \in TickSeconds : Tick(d)

SpecData == InitData /\ [][NextData]_vars

(* ------------- every request is answered, every task is run ------------ *)
\* the answers explored when the end of the calls is followed
LiveNonceResponses ==
    {[kind |-> "http", status |-> 401, fields |-> TRUE],
     [kind |-> "neterr", status |-> 0, fields |-> FALSE]}

\* The server may refuse a request a second time, and a first time as long
\* as the re-authentication this causes, and one authentication for every
\* call that has yet to look for a token, stay within the MaxAuth nonce
\* fetches observed.
LiveResourceResponses(p) ==
    LET unserved == {q \in Requests :
                        pc[q] \in {"idle", "lock_get", "lock_inv", "lock_out"}}
    IN  {Http(200)}
        \cup (IF Attempts(Cur, p) >= 2 \/ NonceGets + Cardinality(unserved) < MaxAuth
              THEN {Http(401)}
              ELSE {})

AnswerNonce(p) == \E resp \in LiveNonceResponses : NonceResponse(p, resp)
AnswerLogin(p) ==
    \E resp \in ClientLoginResponses(now, LoginPosts) : LoginResponse(p, resp)
AnswerResource(p) ==
    \E resp \in LiveResourceResponses(p) : ResourceResponse(p, resp)
AnswerLogout(p) == \E resp \in {Http(200), NetErr} : LogoutResponse(p, resp)

\* get_token, invalidate_token, logout and _get_with_auth calls on one
\* manager built with the default refresh buffer
NextLive ==
    \/ \E p \in Requests : StartGetToken(p)
    \/ \E p \in Requests : StartInvalidateToken(p)
    \/ \E p \in Requests : StartLogout(p)
    \/ \E p \in Requests : StartGetWithAuth(p)
    \/ \E p \in Requests : LockGranted(p)
    \/ \E p \in Requests : AnswerNonce(p)
    \/ \E p \in Requests : AnswerLogin(p)
    \/ \E p \in Requests : AnswerResource(p)
    \/ \E p \in Requests : AnswerLogout(p)

\* Some HTTP call in flight completes, with a response or an error, or
\* the event loop runs the task that a release of the lock has woken: as
\* long as one of these can happen, one of them does.
Fairness ==
    WF_vars(\E p \in Requests :
               \/ LockGranted(p)
               \/ AnswerNonce(p) \/ AnswerLogin(p)
               \/ AnswerResource(p) \/ AnswerLogout(p))

SpecLive == InitClient /\ [][NextLive]_vars /\ Fairness

(* --------------- the constructor and the parser, called directly ------- *)
\* a validation that lets the upper limit through
BufferAcceptedInclusive(b) ==
    MIN_REFRESH_BUFFER_SECONDS <= b /\ b <= MAX_REFRESH_BUFFER_SECONDS

\* auth.py:52-56: not (MIN <= refresh_buffer_seconds < MAX) raises ValueError
BufferAccepted(b) ==
    MIN_REFRESH_BUFFER_SECONDS <= b /\ b < MAX_REFRESH_BUFFER_SECONDS

\* refresh_buffer_seconds arguments given to the constructor
BufferArguments == {-1, 0, 1, 59, 60, 599, 600, 700}

\* JwtAuthManager(..., refresh_buffer_seconds = b): a ValueError leaves the
\* caller without a new manager, so the one it has stays as it is
NewManager(b) ==
    /\ direct' = Direct("__init__", b, NoToken, now,
                        IF BufferAccepted(b) THEN "none" ELSE "ValueError",
                        IF BufferAccepted(b) THEN "none" ELSE "buffer_out_of_range",
                        0)
    /\ IF BufferAccepted(b)
       THEN /\ token_state' = None
            /\ lock_holder' = 0
            /\ lock_waiters' = <<>>
            /\ refresh_buffer_seconds' = b
       ELSE UNCHANGED <<token_state, lock_holder, lock_waiters,
                        refresh_buffer_seconds>>
    /\ UNCHANGED <<now, op, pc, result, trace, register_cache, frame>>

\* the tokens handed to the parser at time t
UnitClaims(t) ==
    {Num(t - 60), Num(t - 30), Num(t), NumStr(t - 30), NumStr(t),
     BadStr, Missing, Other}
UnitLifetimes ==
    {Num(-1), Num(0), Num(1), Num(30), Num(31), Num(86400), Num(86401),
     NumStr(0), NumStr(30), NumStr(86400), NumStr(86401),
     BadStr, Missing, Other}
UnitJwts(t) ==
    {Jwt(3, TRUE, b, l, 0) : b \in UnitClaims(t), l \in UnitLifetimes}
    \cup {JwtExp(e, 0) : e \in {Num(t + 3600), NumStr(t + 3600)}}
    \cup {[Jwt(3, TRUE, Num(t), Num(30), 0) EXCEPT !.exp = Num(t + 3600)],
          Jwt(2, TRUE, Num(t), Num(30), 0),
          Jwt(3, FALSE, Missing, Missing, 0),
          Jwt(1, FALSE, Missing, Missing, 0)}

\* JwtAuthManager._parse_jwt_expiry(tok)
ParseDirect(tok) ==
    /\ LET r == ParseJwtExpiry(tok, now)
       IN  direct' = Direct("_parse_jwt_expiry", 0, tok, now,
                            IF r.ok THEN "none" ELSE "EgaugeParsingException",
                            r.err, r.expiry)
    /\ UNCHANGED <<token_state, lock_holder, lock_waiters,
                   refresh_buffer_seconds, now, op, pc, result, trace,
                   register_cache, frame>>

\* no manager has been constructed yet
InitUnit ==
    /\ token_state = None
    /\ lock_holder = 0
    /\ lock_waiters = <<>>
    /\ refresh_buffer_seconds = 0
    /\ now = 0
    /\ op = [p \in Calls |-> "none"]
    /\ pc = [p \in Calls |-> "idle"]
    /\ result = [p \in Calls |-> NoResult]
    /\ trace = [p \in Calls |-> <<>>]
    /\ direct = NoDirect
    /\ register_cache = None
    /\ frame = [p \in Calls |-> NoFrame]

NextUnit ==
    \/ \E b \in BufferArguments : NewManager(b)
    \/ \E tok \in UnitJwts(now) : ParseDirect(tok)
    \/ \E d \in TickSeconds : Tick(d)

SpecUnit == InitUnit /\ [][NextUnit]_vars

TypeOK ==
    /\ Len(token_state) <= 1
    /\ lock_holder \in {0} \cup DOMAIN pc
    /\ now \in Nat

(* ------------------------- reading the traces -------------------------- *)
Callers == DOMAIN pc
Events(tr) == [i \in DOMAIN tr |-> tr[i].e]
Has(tr, e) == \E i \in DOMAIN tr : tr[i].e = e
HttpCalls(tr) ==
    Count(tr, "GET nonce") + Count(tr, "POST login")
    + Count(tr, "GET resource") + Count(tr, "GET logout")
Started == {p \in Callers : pc[p] # "idle"}
Done == {p \in Callers : pc[p] = "done"}
ReturnedToken(p) == pc[p] = "done" /\ result[p].kind = "token"
\* expiry instant of a well-formed token
ExpiryOf(tok) == tok.beg.val + tok.ltm.val
RefreshTrace(tok) ==
    <<Ev("acquire", NoToken), Ev("GET nonce", NoToken), Ev("POST login", NoToken),
      Ev("store", NoToken), Ev("return", tok)>>

(* ------------------------------- C1 ------------------------------------ *)
\* The get_token() calls whose token is still good: now < expiry - buffer.
Burst ==
    {p \in Callers : /\ op[p] = "get_token"
                   /\ ReturnedToken(p)
                   /\ now < ExpiryOf(result[p].token) - refresh_buffer_seconds}

\* C1: when only get_token() is called on the manager, all calls that came
\* back with a token that is still valid beyond the refresh buffer came back
\* with the same token; exactly one of them fetched a nonce and posted a
\* login (once each, GET before POST) and the others sent nothing.  When
\* these are all the calls made, one GET and one POST were sent in total.
C1_RefreshCollapse ==
    ((\A p \in Started : op[p] = "get_token") /\ Burst # {}) =>
        /\ \E r \in Burst :
              /\ trace[r] = RefreshTrace(result[r].token)
              /\ \A p \in Burst \ {r} :
                    /\ HttpCalls(trace[p]) = 0
                    /\ result[p].token = result[r].token
        /\ (Burst = Started) => (NonceGets = 1 /\ LoginPosts = 1)

\* two calls got the new token, one of them after waiting for the lock
\* that the refreshing call held
C1_Witness ==
    /\ Cardinality(Burst) >= 2
    /\ Burst = Started
    /\ \E p \in Burst : trace[p] = <<Ev("acquire", NoToken),
                                    Ev("return", result[p].token)>>

(* ------------------------------- C2 ------------------------------------ *)
\* the bearer token of the first resource GET of a request
FirstBearer(tr) ==
    tr[CHOOSE i \in DOMAIN tr :
          tr[i].e = "GET resource"
          /\ \A j \in 1..(i - 1) : tr[j].e # "GET resource"].tok
\* the e-events of a request that follow its first 401
Recovery(tr, e) ==
    Cardinality({i \in DOMAIN tr :
                    tr[i].e = e /\ \E j \in 1..(i - 1) : tr[j].e = "recv 401"})
Rejected == {p \in Callers : op[p] = "_get_with_auth" /\ Has(trace[p], "recv 401")}

NothingRaised == \A p \in Callers : result[p].kind \in {"pending", "response"}

\* C2: requests that were sent with the same cached token and were all
\* answered 401 cause, in their recoveries taken together, at most one nonce
\* fetch and at most one login POST (stated here for the runs in which the
\* server accepts every authentication, so that no attempt has to be redone).
C2_OneRoundTrip ==
    \A p \in Rejected : \A q \in Rejected \ {p} :
        (NothingRaised /\ FirstBearer(trace[p]) = FirstBearer(trace[q])) =>
            /\ Recovery(trace[p], "GET nonce") + Recovery(trace[q], "GET nonce") <= 1
            /\ Recovery(trace[p], "POST login") + Recovery(trace[q], "POST login") <= 1

(* ------------------------- reading the steps --------------------------- *)
Exceptions ==
    {"EgaugeAuthenticationError", "EgaugeParsingException", "KeyError",
     "TransportError"}
\* what call p did in this step
NewEvents(p) == SubSeq(trace'[p], Len(trace[p]) + 1, Len(trace'[p]))
\* call p enters get_token() as a call of its own in this step
CallsGetToken(p) == pc[p] = "idle" /\ op'[p] = "get_token"
\* the cached token passes the check: a token state exists and
\* now < expiry_timestamp - refresh_buffer_seconds
CachedAndFresh ==
    IF token_state = <<>> THEN FALSE
    ELSE now < token_state[1].expiry_timestamp - refresh_buffer_seconds

(* ------------------------------- C3 ------------------------------------ *)
\* the cached token is the one returned by the call that authenticated
C3_CachedIsReturned ==
    token_state # <<>> =>
        \E r \in Callers : /\ ReturnedToken(r)
                         /\ result[r].token = token_state[1].token
                         /\ trace[r] = RefreshTrace(result[r].token)
\* after an authenticating call, a call served from the cache: two HTTP
\* calls in all, one nonce GET and one login POST
C3_TwoCalls ==
    \A p \in Callers : \A q \in Callers \ {p} :
        (/\ ReturnedToken(p) /\ trace[p] = RefreshTrace(result[p].token)
         /\ ReturnedToken(q) /\ trace[q] = <<Ev("return", result[p].token)>>) =>
            /\ HttpCalls(trace[p]) + HttpCalls(trace[q]) = 2
            /\ Count(trace[p], "GET nonce") = 1
            /\ Count(trace[p], "POST login") = 1

\* C3: a get_token() call made while the cached token is valid returns the
\* cached token (the one the authenticating call returned) at once, sends no
\* HTTP request, does not take the lock and changes nothing; a call that
\* authenticates followed by such a call costs 2 HTTP calls, not 4.
C3_TokenCaching ==
    [][/\ \A p \in Callers :
            (CallsGetToken(p) /\ CachedAndFresh) =>
                /\ pc'[p] = "done"
                /\ result'[p] = Outcome("token", token_state[1].token, 0)
                /\ trace'[p] = <<Ev("return", token_state[1].token)>>
                /\ UNCHANGED <<token_state, lock_holder, lock_waiters>>
       /\ C3_CachedIsReturned'
       /\ C3_TwoCalls']_vars

\* the second of two calls was served from the cache
C3_Witness ==
    /\ op[1] = "get_token" /\ op[2] = "get_token"
    /\ ReturnedToken(1) /\ trace[1] = RefreshTrace(result[1].token)
    /\ ReturnedToken(2) /\ trace[2] = <<Ev("return", result[1].token)>>

(* ------------------------------- C4 ------------------------------------ *)
\* C4: the validity check succeeds exactly when a token state exists and
\* now < expiry_timestamp - refresh_buffer_seconds.  Seen at both places
\* where get_token() applies it: a call returns on the fast path iff the
\* check holds, and a call that got the lock after waiting fetches a nonce
\* iff it does not.  An expiry 90 s ahead is invalid with buffer 120 and
\* valid with buffer 60; at now = expiry - buffer the token is invalid.
C4_ValidityPredicate ==
    [][/\ \A p \in Callers :
            /\ CallsGetToken(p) =>
                  ((pc'[p] = "done" /\ Events(trace'[p]) = <<"return">>)
                      <=> CachedAndFresh)
            /\ (pc[p] = "lock_get" /\ pc'[p] # "lock_get") =>
                  ((pc'[p] = "nonce") <=> ~CachedAndFresh)
       /\ ~IsTokenValid(<<TokenState(NoToken, now + 90, now)>>, now, 120)
       /\ IsTokenValid(<<TokenState(NoToken, now + 90, now)>>, now, 60)
       /\ ~IsTokenValid(None, now, 60)]_vars

\* a call refreshes although a token is cached: now is exactly
\* expiry - buffer
C4_Witness ==
    \E p \in Callers :
        /\ op[p] = "get_token" /\ pc[p] = "nonce"
        /\ token_state # <<>>
        /\ now = token_state[1].expiry_timestamp - refresh_buffer_seconds

(* ------------------------------- C5 ------------------------------------ *)
\* C5: a refresh that ends without storing a token ends with an exception,
\* hands out no token and leaves the token state as it was; and whenever
\* get_token() returns the token that was cached before the step, that
\* token passed the validity check.
C5_NoStaleFallback ==
    [][\A p \in Callers :
          /\ (pc[p] \in {"nonce", "login"} /\ pc'[p] = "done"
              /\ ~Has(NewEvents(p), "store")) =>
                 /\ result'[p].kind \in Exceptions
                 /\ result'[p].token = NoToken
                 /\ ~Has(NewEvents(p), "return")
                 /\ token_state' = token_state
          /\ \A i \in DOMAIN NewEvents(p) :
                (/\ NewEvents(p)[i].e = "return"
                 /\ token_state # <<>>
                 /\ NewEvents(p)[i].tok = token_state[1].token) => CachedAndFresh]_vars

\* a stale token is cached and the call that tried to replace it failed
C5_Witness ==
    /\ token_state # <<>> /\ ~CachedAndFresh
    /\ ReturnedToken(1) /\ trace[1] = RefreshTrace(token_state[1].token)
    /\ pc[2] = "done" /\ op[2] = "get_token"
    /\ result[2].kind = "EgaugeParsingException"
    /\ Has(trace[2], "POST login")

(* ------------------------------- C6 ------------------------------------ *)
\* C6: whenever get_token() returns a token, cached or fresh from the login
\* endpoint, now < expiry - refresh_buffer_seconds holds for it.
C6_ReturnedTokenOutlivesBuffer ==
    [][\A p \in Callers : \A i \in DOMAIN NewEvents(p) :
          NewEvents(p)[i].e = "return" =>
              now < ExpiryOf(NewEvents(p)[i].tok) - refresh_buffer_seconds]_vars

(* ------------------------------- C7 ------------------------------------ *)
IsAnswer(e) == e \in {"recv 200", "recv 401", "recv 500", "recv error"}
\* the answers a request got to its resource GETs, in order
Answers(tr) == SelectSeq(Events(tr), IsAnswer)
StatusOf(e) == IF e = "recv 200" THEN 200 ELSE IF e = "recv 401" THEN 401 ELSE 500
\* positions of the e-events of a trace
At(tr, e) == {i \in DOMAIN tr : tr[i].e = e}

\* C7: a request sends its resource GET at most twice.  A first answer
\* other than 401 is returned with no retry and no invalidation.  After a
\* first 401 the token is invalidated once, a token is obtained again and
\* the GET is sent once more: a second answer other than 401 is returned as
\* the result, a second 401 raises EgaugeAuthenticationError; either way
\* the resource was requested exactly twice.
C7_SingleRetry ==
    \A p \in Callers : op[p] = "_get_with_auth" =>
        LET tr == trace[p]
            gets == ResourceGets(tr)
            ans == Answers(tr)
        IN  /\ gets <= 2
            /\ Len(ans) <= gets
            /\ (ans = <<>>) => (gets <= 1 /\ ~Has(tr, "clear"))
            /\ (Len(ans) >= 1 /\ ans[1] # "recv 401") =>
                  /\ pc[p] = "done" /\ gets = 1 /\ ~Has(tr, "clear")
                  /\ result[p] = Outcome("response", NoToken, StatusOf(ans[1]))
            /\ (Len(ans) >= 1 /\ ans[1] = "recv 401") =>
                  /\ pc[p] = "done" => (gets = 2 \/ result[p].kind \in Exceptions)
                  /\ pc[p] # "done" => Count(tr, "clear") <= 1
                  /\ gets = 2 =>
                        \E a \in At(tr, "recv 401") : \E c \in At(tr, "clear") :
                        \E r \in At(tr, "return") :
                            /\ Count(tr, "clear") = 1
                            /\ a < c /\ c < r
                            /\ tr[r + 1].e = "GET resource"
            /\ (Len(ans) = 2 /\ ans[2] # "recv 401") =>
                  /\ pc[p] = "done" /\ gets = 2
                  /\ result[p] = Outcome("response", NoToken, StatusOf(ans[2]))
            /\ (Len(ans) = 2 /\ ans[2] = "recv 401") =>
                  /\ pc[p] = "done" /\ gets = 2
                  /\ result[p] = Outcome("EgaugeAuthenticationError", NoToken, 0)

\* a request was answered 401 twice
C7_Witness ==
    \E p \in Callers :
        /\ op[p] = "_get_with_auth"
        /\ Answers(trace[p]) = <<"recv 401", "recv 401">>
        /\ result[p].kind = "EgaugeAuthenticationError"

(* ------------------------------- C8 ------------------------------------ *)
\* C8: in every request each resource GET directly follows a return of
\* get_token() and carries the token returned there; the retry GET comes
\* after the 401, then the clearing of the token by invalidate_token(),
\* then that return of get_token(), in this order.
C8_TokenBeforeRequest ==
    \A p \in Callers : op[p] = "_get_with_auth" =>
        LET tr == trace[p]
        IN  \A i \in At(tr, "GET resource") :
                /\ i > 1
                /\ tr[i - 1] = Ev("return", tr[i].tok)
                /\ tr[i].tok # NoToken
                /\ \A j \in At(tr, "GET resource") : j < i =>
                      /\ tr[j + 1].e = "recv 401"
                      /\ \E c \in At(tr, "clear") : j + 1 < c /\ c < i - 1
                      /\ \A k \in (j + 1)..(i - 2) : tr[k].e # "return"

\* a request has sent its retry
C8_Witness ==
    \E p \in Callers :
        /\ op[p] = "_get_with_auth"
        /\ ResourceGets(trace[p]) = 2
        /\ FirstBearer(trace[p]) # trace[p][Len(trace[p])].tok
        /\ trace[p][Len(trace[p])].e = "GET resource"

(* ------------------------------- C9 ------------------------------------ *)
\* C9: an invalidate_token() call ends, from any token state, with the
\* token state empty, without error and having sent nothing (it took the
\* lock and cleared, nothing else), also when the state was empty already;
\* a get_token() call made on an empty token state never returns from the
\* cache: it fetches a nonce, or waits for the lock when a call holds it.
C9_InvalidateClears ==
    [][\A p \in Callers :
          /\ (op'[p] = "invalidate_token" /\ pc[p] # "done" /\ pc'[p] = "done") =>
                /\ token_state' = <<>>
                /\ result'[p] = Outcome("returned", NoToken, 0)
                /\ Events(trace'[p]) = <<"acquire", "clear">>
                /\ HttpCalls(trace'[p]) = 0
          /\ (CallsGetToken(p) /\ token_state = <<>>) =>
                /\ pc'[p] \in {"nonce", "lock_get"}
                /\ LockFree(Cur) =>
                      Events(trace'[p]) = <<"acquire", "GET nonce">>]_vars

\* a cached token was invalidated, and invalidated once more
C9_Witness ==
    /\ ReturnedToken(1)
    /\ op[2] = "invalidate_token" /\ pc[2] = "done"
    /\ op[3] = "invalidate_token" /\ pc[3] = "done"
    /\ token_state = <<>>

(* ------------------------------- C10 ----------------------------------- *)
\* C10: a logout() that finds a token clears the token state and then sends
\* one GET to the logout endpoint with the token it found; the call sends
\* nothing else; a 200 answer ends it normally and any other answer raises
\* EgaugeAuthenticationError; the answer leaves the token state untouched,
\* so logout() never puts the token back.
C10_Logout ==
    [][\A p \in Callers :
          /\ (pc[p] # "logout" /\ pc'[p] = "logout") =>
                /\ token_state # <<>>
                /\ token_state' = <<>>
                /\ Events(trace'[p]) = <<"acquire", "clear", "GET logout">>
                /\ trace'[p][3].tok = token_state[1].token
          /\ (pc[p] = "logout" /\ pc'[p] # "logout") =>
                /\ pc'[p] = "done"
                /\ token_state' = token_state
                /\ HttpCalls(trace'[p]) = 1
                /\ Has(NewEvents(p), "recv 200") =>
                      result'[p] = Outcome("returned", NoToken, 0)
                /\ Has(NewEvents(p), "recv 500") =>
                      result'[p] = Outcome("EgaugeAuthenticationError", NoToken, 0)]_vars

\* the server refused the logout and the token state is empty
C10_Witness ==
    \E p \in Callers :
        /\ op[p] = "logout" /\ pc[p] = "done"
        /\ Has(trace[p], "GET logout") /\ Has(trace[p], "recv 500")
        /\ result[p].kind = "EgaugeAuthenticationError"
        /\ token_state = <<>>

(* ------------------------------- C11 ----------------------------------- *)
\* call p runs the locked part of logout() in this step
LogoutUnderLock(p) ==
    /\ op'[p] = "logout"
    /\ \/ pc[p] = "idle" /\ pc'[p] # "idle" /\ LockFree(Cur)
       \/ pc[p] = "lock_out" /\ pc'[p] # "lock_out"

Refreshing == {p \in Callers : pc[p] \in {"nonce", "login"}}

\* C12: while a call is inside a refresh it holds the lock, and until it has
\* stored its token (or failed) and released the lock no other call writes
\* the token state: an invalidate_token() or logout() issued meanwhile does
\* nothing but queue for the lock, a queued one stays queued, and the only
\* change of the token state is the store of the refreshing call itself.
C12_NoInterleave ==
    [][\A p \in Refreshing :
          /\ lock_holder = p
          /\ (token_state' # token_state) =>
                (pc'[p] = "done" /\ Has(NewEvents(p), "store"))
          /\ \A q \in Callers \ {p} :
                /\ ~Has(NewEvents(q), "clear")
                /\ ~Has(NewEvents(q), "store")
                /\ (pc[q] = "idle" /\ op'[q] = "invalidate_token") =>
                      (pc'[q] = "lock_inv" /\ NewEvents(q) = <<>>)
                /\ (pc[q] = "idle" /\ op'[q] = "logout") =>
                      (pc'[q] = "lock_out" /\ NewEvents(q) = <<>>)
                /\ (pc[q] \in {"lock_inv", "lock_out"}) => (pc'[q] = pc[q])]_vars

\* the refresh has stored its token and released the lock; the
\* invalidate_token() issued while it ran is still queued and the new
\* token is still cached
C12_Witness ==
    \E p \in Callers : \E q \in Callers :
        /\ ReturnedToken(p) /\ trace[p] = RefreshTrace(result[p].token)
        /\ op[q] = "invalidate_token" /\ pc[q] = "lock_inv"
        /\ lock_holder = 0 /\ Head(lock_waiters) = q
        /\ token_state # <<>> /\ token_state[1].token = result[p].token

(* ------------------------------- C13 ----------------------------------- *)
\* call p writes the token state at event i of this step while it has the
\* lock: it held it across its await, or took it earlier in the same step
\* when nobody held it
WritesUnderLock(p, i) ==
    \/ lock_holder = p
    \/ /\ lock_holder = 0
       /\ \E j \in 1..(i - 1) : NewEvents(p)[j].e = "acquire"

\* C13: every write of the token state (the store after a login, the clear
\* of invalidate_token(), the clear of logout()) is made by the call that
\* has the lock, and the token state changes in no other way; a store puts
\* a whole new record in place (the token, its expiry beg + ltm, the time
\* of the store); and at most one call is inside a refresh, the lock holder.
C13_LockDiscipline ==
    [][/\ \A p \in Callers : \A i \in DOMAIN NewEvents(p) :
            /\ NewEvents(p)[i].e \in {"store", "clear"} => WritesUnderLock(p, i)
            /\ NewEvents(p)[i].e = "store" =>
                  /\ Len(token_state') = 1
                  /\ token_state'[1] =
                        TokenState(token_state'[1].token,
                                   ExpiryOf(token_state'[1].token), now)
                  /\ Has(NewEvents(p), "return")
                  /\ \A k \in DOMAIN NewEvents(p) :
                        NewEvents(p)[k].e = "return" =>
                            NewEvents(p)[k].tok = token_state'[1].token
            /\ NewEvents(p)[i].e = "clear" => token_state' = <<>>
       /\ (token_state' # token_state) =>
             \E p \in Callers : Has(NewEvents(p), "store") \/ Has(NewEvents(p), "clear")
       /\ Cardinality(Refreshing') <= 1
       /\ \A p \in Refreshing' : lock_holder' = p]_vars

\* one call has stored a token, a logout() has cleared it and a third call
\* is refreshing under the lock
C13_Witness ==
    \E p \in Callers : \E q \in Callers : \E r \in Callers :
        /\ ReturnedToken(p) /\ Has(trace[p], "store")
        /\ op[q] = "logout" /\ Has(trace[q], "clear")
        /\ pc[r] = "login" /\ lock_holder = r

NonceOutcome(p, resp) ==
    /\ (pc'[p] = "login" \/ Has(NewEvents(p), "POST login")) =>
          (resp.kind = "http" /\ resp.status = 401)
    /\ (resp.kind = "http" /\ resp.status # 401) =>
          /\ pc'[p] = "done"
          /\ result'[p] = Outcome("EgaugeAuthenticationError", NoToken, 0)
          /\ Count(trace'[p], "POST login") = 0
          /\ token_state' = token_state
          /\ lock_holder' = 0

\* C18: when the answer to the nonce GET arrives, the refresh goes on to
\* the login POST only if the answer had status 401; an answer with any
\* other status (200, 500) ends the call with EgaugeAuthenticationError,
\* with no login POST sent, the token state as it was and the lock free.
C18_NonceStep ==
    [][\A p \in Callers : (pc[p] = "nonce" /\ pc'[p] # "nonce") =>
          \A resp \in NonceResponses :
              NonceOutcome(p, resp) \/ ~NonceResponse(p, resp)]_vars

\* a refresh stopped at the nonce step and the stale token is still cached
C18_Witness ==
    \E p \in Callers :
        /\ op[p] = "get_token" /\ pc[p] = "done"
        /\ result[p].kind = "EgaugeAuthenticationError"
        /\ Events(trace[p]) = <<"acquire", "GET nonce">>
        /\ token_state # <<>>

(* ------------------------------- C19 ----------------------------------- *)
\* what the claim says of a login answer resp received by call p
LoginOutcome(p, resp) ==
    /\ pc'[p] = "done"
    /\ (resp.status # 200 \/ resp.error) =>
          result'[p] = Outcome("EgaugeAuthenticationError", NoToken, 0)
    /\ (resp.status = 200 /\ ~resp.error /\ ~resp.jwt) =>
          result'[p] = Outcome("EgaugeParsingException", NoToken, 0)
    /\ (result'[p].kind = "token") =>
          /\ resp.status = 200 /\ resp.jwt /\ ~resp.error
          /\ result'[p].token = resp.token
    /\ (result'[p].kind \in Exceptions) =>
          /\ token_state' = token_state
          /\ ~Has(NewEvents(p), "store")
          /\ ~Has(NewEvents(p), "return")

\* C19: when the answer to the login POST arrives: a status other than 200,
\* or a 200 body with an error field (with or without a jwt field), raises
\* EgaugeAuthenticationError; a 200 body with neither field raises
\* EgaugeParsingException; get_token() hands out a token only for a 200
\* body with a jwt field and no error field, and then that token; and a
\* call that ends with an exception has cached nothing.
C19_LoginOutcomes ==
    [][\A p \in Callers : (pc[p] = "login" /\ pc'[p] # "login") =>
          \A resp \in LoginResponses(now, LoginPosts) :
              \/ resp.kind # "http"
              \/ LoginOutcome(p, resp)
              \/ ~LoginResponse(p, resp)]_vars

\* a login was refused and nothing is cached
C19_Witness ==
    \E p \in Callers :
        /\ op[p] = "get_token" /\ pc[p] = "done"
        /\ result[p].kind = "EgaugeAuthenticationError"
        /\ Events(trace[p]) = <<"acquire", "GET nonce", "POST login">>
        /\ token_state = <<>>

(* ------------------------- reading direct calls ------------------------ *)
Numeric(c) == c.kind \in {"num", "str"}
\* a token whose payload decodes and carries numeric beg and ltm
HasBegLtm(tok) ==
    /\ tok.segments >= 2 /\ tok.decodable
    /\ Numeric(tok.beg) /\ Numeric(tok.ltm)
Parsed == direct.fn = "_parse_jwt_expiry"

(* ------------------------------- C15 ----------------------------------- *)
\* C15: _parse_jwt_expiry returns an expiry only when that expiry is after
\* the instant of the call, and rejects every token with numeric beg and
\* ltm whose beg + ltm is at or before that instant.
C15_RejectsAtExpiry ==
    Parsed =>
        /\ (direct.raised = "none") => (direct.value > direct.at)
        /\ (HasBegLtm(direct.token)
            /\ ExpiryOf(direct.token) <= direct.at) =>
               direct.raised = "EgaugeParsingException"

(* ------------------------------- C16 ----------------------------------- *)
\* a token whose payload decodes and carries a numeric exp and no beg, ltm
ExpOnly(tok) ==
    /\ tok.segments >= 2 /\ tok.decodable
    /\ tok.beg.kind = "missing" /\ tok.ltm.kind = "missing"
    /\ Numeric(tok.exp)

\* C16 as claimed: the parser accepts a token that carries only an exp
\* claim in the future (number or numeric string) and returns exp; for a
\* token with beg and ltm it returns beg + ltm.
C16_TwoShapes ==
    Parsed =>
        /\ (ExpOnly(direct.token) /\ direct.token.exp.val > direct.at) =>
               (direct.raised = "none" /\ direct.value = direct.token.exp.val)
        /\ (HasBegLtm(direct.token) /\ direct.raised = "none") =>
               direct.value = ExpiryOf(direct.token)

\* C16 as amended: the parser supports one claim shape, beg with ltm, for
\* which it returns beg + ltm (an exp claim beside them is ignored); a
\* token that carries only an exp claim is rejected with
\* EgaugeParsingException for its missing beg.
C16_BegLtmOnly ==
    Parsed =>
        /\ ExpOnly(direct.token) =>
               /\ direct.raised = "EgaugeParsingException"
               /\ direct.why = "missing_beg"
        /\ (HasBegLtm(direct.token) /\ direct.raised = "none") =>
               direct.value = ExpiryOf(direct.token)

\* a token with exp one hour ahead, as a numeric string, was refused
C16_Witness ==
    /\ Parsed
    /\ direct.token = JwtExp(NumStr(direct.at + 3600), 0)
    /\ direct.raised = "EgaugeParsingException"

(* ------------------------------- C17 ----------------------------------- *)
\* C17: for a token with numeric (number or numeric string) beg and ltm the
\* parser raises "lifetime must be positive" when ltm <= 0 and "lifetime is
\* too long" when ltm > 86400; with 0 < ltm <= 86400 (86400 included) and
\* beg + ltm after the instant of the call it returns beg + ltm, and
\* whenever it returns, it returns exactly beg + ltm.
C17_LifetimeBounds ==
    (Parsed /\ HasBegLtm(direct.token)) =>
        LET beg == direct.token.beg.val
            ltm == direct.token.ltm.val
        IN  /\ (ltm <= 0) =>
                  /\ direct.raised = "EgaugeParsingException"
                  /\ direct.why = "ltm_not_positive"
            /\ (ltm > 86400) =>
                  /\ direct.raised = "EgaugeParsingException"
                  /\ direct.why = "ltm_too_long"
            /\ (0 < ltm /\ ltm <= 86400 /\ beg + ltm > direct.at) =>
                  (direct.raised = "none" /\ direct.value = beg + ltm)
            /\ (direct.raised = "none") =>
                  (0 < ltm /\ ltm <= 86400 /\ direct.value = beg + ltm)

\* a lifetime of exactly 86400, given as a string, was accepted
C17_Witness ==
    /\ Parsed
    /\ direct.token.ltm = NumStr(86400)
    /\ direct.token.beg.kind = "str"
    /\ direct.raised = "none"
    /\ direct.value = direct.token.beg.val + 86400

(* ------------------------------- C20 ----------------------------------- *)
\* the get_register_info() calls that are fetching the catalog
Fetching ==
    {p \in Callers : op[p] = "get_register_info" /\ pc[p] \notin {"idle", "done"}}

\* C20: a get_register_info() call that succeeds leaves the mapping it
\* returns in the cache.  From then on the cache is never empty again,
\* whatever invalidate_token() and logout() do to the token, and it changes
\* only if a call that began fetching before is still under way; every
\* call made while the cache holds a mapping returns that mapping at once,
\* having sent nothing and asked for no token, and changes nothing.
C20_CatalogCached ==
    [][/\ \A p \in Callers :
            /\ (/\ op[p] = "get_register_info" /\ pc[p] # "done"
                /\ pc'[p] = "done" /\ result'[p].kind = "value") =>
                   register_cache' = <<result'[p].value>>
            /\ (/\ pc[p] = "idle" /\ op'[p] = "get_register_info"
                /\ register_cache # <<>>) =>
                   /\ pc'[p] = "done"
                   /\ result'[p] = Value(register_cache[1])
                   /\ trace'[p] = <<>>
                   /\ UNCHANGED <<register_cache, token_state, lock_holder,
                                  lock_waiters>>
       /\ (register_cache # <<>>) => (register_cache' # <<>>)
       /\ (register_cache # <<>> /\ Fetching = {}) =>
             (register_cache' = register_cache)]_vars

\* the first call fetched the catalog, a logout() cleared the token, and
\* the third call got the same mapping from the cache
C20_Witness ==
    /\ op[1] = "get_register_info" /\ pc[1] = "done"
    /\ result[1].kind = "value" /\ Has(trace[1], "GET resource")
    /\ op[2] = "logout" /\ pc[2] = "done" /\ Has(trace[2], "clear")
    /\ op[3] = "get_register_info" /\ pc[3] = "done"
    /\ trace[3] = <<>> /\ result[3] = result[1]
    /\ token_state = <<>>

(* ------------------------------- C21 ----------------------------------- *)
\* the mappings that are built from the whole of one answer
CompleteMappings ==
    {BuildRegisters(b, 1, NoMapping).map :
        b \in {c \in CatalogBodies : BuildRegisters(c, 1, NoMapping).ok}}

\* C21: get_register_info() calls that start while the cache is empty all
\* fetch.  The cache is always empty or the mapping built from the whole of
\* one answer; a call that returns, returns such a mapping; the cache
\* changes only when a fetch returns and then holds what that call
\* returns, so that after all have finished it holds the last one written.
C21_FirstFetchRace ==
    [][/\ register_cache' = <<>> \/ register_cache'[1] \in CompleteMappings
       /\ \A p \in Callers :
            /\ (/\ pc[p] = "idle" /\ op'[p] = "get_register_info"
                /\ register_cache = <<>>) =>
                   (pc'[p] # "done" /\ register_cache' = <<>>)
            /\ (/\ op[p] = "get_register_info" /\ pc[p] = "resource"
                /\ pc'[p] = "done" /\ result'[p].kind = "value") =>
                   /\ result'[p].value \in CompleteMappings
                   /\ register_cache' = <<result'[p].value>>
       /\ (register_cache' # register_cache) =>
             \E p \in Callers :
                 /\ op[p] = "get_register_info" /\ pc[p] = "resource"
                 /\ pc'[p] = "done" /\ result'[p].kind = "value"]_vars

\* two calls fetched at the same time and got different mappings; the one
\* that began first returned last, and its mapping is the one cached
C21_Witness ==
    /\ op[1] = "get_register_info" /\ op[2] = "get_register_info"
    /\ pc[1] = "done" /\ pc[2] = "done"
    /\ Has(trace[1], "GET resource") /\ Has(trace[2], "GET resource")
    /\ result[1].kind = "value" /\ result[2].kind = "value"
    /\ result[1].value # result[2].value
    /\ DOMAIN result[2].value # {}
    /\ register_cache = <<result[1].value>>

(* ------------------------------- C29 ----------------------------------- *)
\* request p, answered 401, is told that its authentication has failed
ReauthFails(p) ==
    /\ op[p] = "_get_with_auth"
    /\ Answers(trace[p]) = <<"recv 401">>
    /\ pc[p] \in {"nonce", "login"}
    /\ pc'[p] = "done"

C30_StoredAfterParse ==
    [][/\ (token_state' # None) =>
            LET ts == token_state'[1]
            IN  /\ HasBegLtm(ts.token)
                /\ ts.token.ltm.val > 0
                /\ ts.expiry_timestamp = ExpiryOf(ts.token)
                /\ ts.expiry_timestamp >= ts.issued_at
       /\ (token_state' # token_state /\ token_state' # None) =>
            /\ token_state'[1].issued_at = now
            /\ \E p \in Callers :
                  /\ pc[p] = "login" /\ pc'[p] = "done"
                  /\ result'[p] = Outcome("token", token_state'[1].token, 0)
       /\ \A p \in Callers :
            (/\ pc[p] = "login" /\ pc'[p] = "done"
             /\ result'[p].kind = "EgaugeParsingException") =>
                token_state' = token_state]_vars

\* a token is stored, and the refresh that was to replace it has ended in
\* EgaugeParsingException
C30_Witness ==
    /\ token_state # None
    /\ \E p \in Callers :
          /\ op[p] = "get_token" /\ pc[p] = "done"
          /\ result[p].kind = "EgaugeParsingException"
          /\ Has(trace[p], "POST login")
          /\ \E q \in Callers : q < p /\ ReturnedToken(q)
                 /\ result[q].token = token_state[1].token

(* ----------------------- reading the client calls --------------------- *)
\* call p has ended and had got a body in answer to its request
Parsing(p, method) ==
    /\ op[p] = method /\ pc[p] = "done"
    /\ frame[p].stage = "request" /\ frame[p].data # <<>>
Raised(p, exc) == pc[p] = "done" /\ result[p].kind = exc
Returned(p) == pc[p] = "done" /\ result[p].kind = "value"
\* the registers array of a body names its registers and their types
WellFormed(regs) ==
    \A i \in DOMAIN regs :
        /\ {"name", "type"} \subseteq regs[i].keys
        /\ regs[i].type \in RegisterTypes
Distinct(regs) ==
    \A i, j \in DOMAIN regs : regs[i].name = regs[j].name => i = j

(* ------------------------------- C22 ----------------------------------- *)
\* the first name of a filter, in the order of the request, that the
\* catalog lacks
FirstUnknown(registers, reg_info, name) ==
    \E i \in DOMAIN registers :
        /\ registers[i] = name
        /\ name \notin DOMAIN reg_info
        /\ \A j \in 1..(i - 1) : registers[j] \in DOMAIN reg_info

\* C22: a measurement method called with a filter that has a name the
\* catalog lacks raises EgaugeUnknownRegisterError naming the first such
\* name and never sends its measurement request: when the catalog is cached
\* the call ends at once, having sent nothing; otherwise nothing but the
\* catalog fetch (with its one retry) has been sent.
C22_UnknownRegister ==
    [][\A p \in Callers :
          (op'[p] \in MeasureMethods /\ Filtered(frame'[p].registers)) =>
            LET registers == frame'[p].registers[1]
                cache == register_cache'
            IN  /\ (frame'[p].stage = "request") =>
                      /\ cache # None
                      /\ \A i \in DOMAIN registers : registers[i] \in DOMAIN cache[1]
                /\ (/\ pc'[p] = "done" /\ cache # None
                    /\ \E i \in DOMAIN registers : registers[i] \notin DOMAIN cache[1]) =>
                      /\ result'[p].kind = "EgaugeUnknownRegisterError"
                      /\ FirstUnknown(registers, cache[1], result'[p].message)
                      /\ frame'[p].stage \in {"none", "catalog"}
                      /\ ResourceGets(trace'[p]) <= 2
                      /\ (ResourceGets(trace'[p]) = 2) =>
                            Answers(trace'[p])[1] = "recv 401"
                /\ (/\ pc[p] \in {"idle", "done"}
                    /\ <<op[p], pc[p], result[p], trace[p], frame[p]>> #
                          <<op'[p], pc'[p], result'[p], trace'[p], frame'[p]>>
                    /\ register_cache # None
                    /\ \E i \in DOMAIN registers :
                          registers[i] \notin DOMAIN register_cache[1]) =>
                      /\ pc'[p] = "done" /\ trace'[p] = <<>>
                      /\ result'[p].kind = "EgaugeUnknownRegisterError"
                /\ (pc'[p] = "done" /\ result'[p].kind = "EgaugeUnknownRegisterError") =>
                      /\ cache # None
                      /\ FirstUnknown(registers, cache[1], result'[p].message)]_vars

\* the catalog was fetched for a filter whose second and third names it
\* lacks, and the call has raised, naming the second
C22_Witness ==
    \E p \in Callers :
        /\ op[p] = "get_historical_counters"
        /\ frame[p].registers = <<<<"Grid", "Solar", "Wind">>>>
        /\ Raised(p, "EgaugeUnknownRegisterError")
        /\ result[p].message = "Solar"
        /\ ResourceGets(trace[p]) = 1

RangeFault(ranges) ==
    IF ranges = <<>> THEN "Response missing 'ranges' array or array is empty"
    ELSE IF Len(ranges) > 1 THEN "Expected 1 range for time=now query"
    ELSE IF "rows" \notin ranges[1].keys THEN "Range object missing 'rows' field"
    ELSE IF ranges[1].rows = <<>> THEN "Range 'rows' array is empty"
    ELSE IF Len(ranges[1].rows) > 1 THEN "Expected 1 row for time=now query"
    ELSE ""

\* C24: get_current_counters, on a body whose registers array is well
\* formed, returns a value only when the body has one range and that range
\* one row; no or empty 'ranges', several ranges, a range without 'rows',
\* empty 'rows' and several rows each raise EgaugeParsingException with a
\* message of their own.
C24_OneRangeOneRow ==
    \A p \in Callers :
        (/\ Parsing(p, "get_current_counters")
         /\ WellFormed(RegistersOf(frame[p].data))) =>
            LET fault == RangeFault(RangesOf(frame[p].data))
            IN  /\ (fault # "") =>
                      /\ Raised(p, "EgaugeParsingException")
                      /\ result[p].message = fault
                /\ Returned(p) => fault = ""
                /\ (Raised(p, "EgaugeParsingException")) => fault # ""

\* an answer with two ranges was refused
C24_Witness ==
    \E p \in Callers :
        /\ Parsing(p, "get_current_counters")
        /\ Len(RangesOf(frame[p].data)) = 2
        /\ Raised(p, "EgaugeParsingException")
        /\ result[p].message = "Expected 1 range for time=now query"

(* ------------------------------- C25 ----------------------------------- *)
\* the number of rows of the ranges before range k
RECURSIVE RowsBefore(_, _)
RowsBefore(ranges, k) ==
    IF k <= 1 THEN 0 ELSE RowsBefore(ranges, k - 1) + Len(ranges[k - 1].rows)

QuantumDen(type) ==
    CASE type = "P" -> 1
      [] type = "V" -> 1000
      [] type = "$" -> 536870912
      [] type = "Qv" -> 1000000000

\* the value of column j of a row is the raw integer times the quantum of
\* the type of the j-th register, under the name of that register
Converted(row, regs, values) ==
    \A j \in DOMAIN row :
        /\ regs[j].name \in DOMAIN values
        /\ values[regs[j].name].num = row[j].val
        /\ values[regs[j].name].den = QuantumDen(regs[j].type)

\* C26: in what get_current_counters and get_historical_counters return,
\* the value of the j-th column of a row is int(raw) times the quantum of
\* the type code of the j-th entry of the registers array of the response,
\* stored under the name of that entry.
C26_QuantumConversion ==
    \A p \in Callers :
        /\ (Parsing(p, "get_current_counters") /\ Returned(p)) =>
              Converted(RangesOf(frame[p].data)[1].rows[1],
                        RegistersOf(frame[p].data), result[p].value)
        /\ (Parsing(p, "get_historical_counters") /\ Returned(p)) =>
              LET ranges == RangesOf(frame[p].data)
              IN  \A k \in DOMAIN ranges : \A i \in DOMAIN ranges[k].rows :
                      Converted(ranges[k].rows[i], RegistersOf(frame[p].data),
                                result[p].value[RowsBefore(ranges, k) + i])

\* a power counter is returned as it is, a voltage counter of 120000000 as
\* 120000
C26_Witness ==
    \E p \in Callers :
        /\ Parsing(p, "get_current_counters") /\ Returned(p)
        /\ RegistersOf(frame[p].data) = <<RegGrid, RegVolts>>
        /\ result[p].value["Grid"] = [num |-> 7494425, den |-> 1]
        /\ result[p].value["L1 Voltage"].num = 120000 * result[p].value["L1 Voltage"].den

(* ------------------------------- C27 ----------------------------------- *)
\* C27: TYPE_CODES has an entry for every member of RegisterType and for
\* nothing else, the type_code of an entry is its key and its quantum is
\* positive; a counter method whose response names valid types never ends
\* in the KeyError of get_quantum.
C27_TableTotal ==
    /\ DOMAIN TYPE_CODES = RegisterTypes
    /\ \A t \in RegisterTypes :
          /\ TYPE_CODES[t].type_code = t
          /\ TYPE_CODES[t].quantum.num > 0
          /\ TYPE_CODES[t].quantum.den > 0
    /\ \A p \in Callers :
          (/\ op[p] \in {"get_current_counters", "get_historical_counters"}
           /\ Raised(p, "KeyError")) =>
                result[p].message \in {"ts", "delta", "rows"}

\* counters of a monetary and of a volumetric flow register were converted
C27_Witness ==
    \E p \in Callers :
        /\ Parsing(p, "get_current_counters") /\ Returned(p)
        /\ RegistersOf(frame[p].data) = <<RegMoney, RegFlow>>
        /\ DOMAIN result[p].value = {"Cost", "Water"}

(* ------------------------------- C28 ----------------------------------- *)
\* the answers call p got to the GETs of its request and of its rights check
FirstAnswers(p) == Answers(SubSeq(trace[p], 1, frame[p].since))
RightsAnswers(p) ==
    Answers(SubSeq(trace[p], frame[p].since + 1, Len(trace[p])))

\* C28: get_device_serial_number and get_hostname never end with the
\* EgaugeAuthenticationError of their request without having made the
\* rights check.  After the check they raise EgaugePermissionError when it
\* has returned the rights, and when the check has failed authentication
\* they raise the EgaugeAuthenticationError that their request had raised,
\* which is not the one of the check.
C28_PermissionOrAuthentication ==
    \A p \in Callers : (op[p] \in SettingsMethods /\ pc[p] = "done") =>
        /\ (frame[p].stage = "request") =>
              /\ result[p].kind # "EgaugeAuthenticationError"
              /\ FirstAnswers(p) = <<>>
              /\ Answers(trace[p]) # <<"recv 401", "recv 401">>
        /\ (frame[p].stage = "rights") =>
              /\ frame[p].auth_error = frame[p].since
              /\ frame[p].auth_error > 0
              /\ Len(trace[p]) > frame[p].auth_error
              /\ (/\ frame[p].data # <<>>
                  /\ {"usr", "rights"} \subseteq frame[p].data.keys) =>
                     Raised(p, "EgaugePermissionError")
              /\ Raised(p, "EgaugePermissionError") =>
                     /\ frame[p].data # <<>>
                     /\ RightsAnswers(p)[Len(RightsAnswers(p))] = "recv 200"
              /\ (\/ RightsAnswers(p) = <<"recv 401", "recv 401">>
                  \/ trace[p][Len(trace[p])].e \in {"GET nonce", "POST login"}) =>
                     /\ Raised(p, "EgaugeAuthenticationError")
                     /\ frame[p].reraised = frame[p].auth_error
              /\ Raised(p, "EgaugeAuthenticationError") =>
                     frame[p].reraised = frame[p].auth_error

\* the request was answered 401 twice and so was the rights check
C28_Witness ==
    \E p \in Callers :
        /\ op[p] = "get_device_serial_number"
        /\ FirstAnswers(p) = <<"recv 401", "recv 401">>
        /\ RightsAnswers(p) = <<"recv 401", "recv 401">>
        /\ Raised(p, "EgaugeAuthenticationError")
        /\ frame[p].reraised = frame[p].auth_error

(* ------------------------------- C31 ----------------------------------- *)
\* the first of the checks (1) to (6) that a token fails, 7 when it passes
\* them all
FirstFailing(tok) ==
    IF tok.segments < 2 THEN 1
    ELSE IF ~tok.decodable THEN 2
    ELSE IF tok.beg.kind = "missing" THEN 3
    ELSE IF tok.ltm.kind = "missing" THEN 4
    ELSE IF ~Numeric(tok.beg) \/ ~Numeric(tok.ltm) THEN 5
    ELSE IF tok.ltm.val <= 0 \/ tok.ltm.val > 86400 THEN 6
    ELSE 7
\* the errors that report a check
ErrorsOf(check) ==
    CASE check = 1 -> {"malformed"}
      [] check = 2 -> {"decode"}
      [] check = 3 -> {"missing_beg"}
      [] check = 4 -> {"missing_ltm"}
      [] check = 5 -> {"beg_not_numeric", "ltm_not_numeric"}
      [] check = 6 -> {"ltm_not_positive", "ltm_too_long"}
      [] check = 7 -> {"expired", "none"}

\* C31: the error of _parse_jwt_expiry is that of the first check the token
\* fails, in the order segments, decoding, beg missing, ltm missing, beg or
\* ltm not numeric, ltm out of range, expired; only a token that passes the
\* first six is reported as expired or is accepted.
C31_FirstFailingCheck ==
    Parsed =>
        /\ direct.why \in ErrorsOf(FirstFailing(direct.token))
        /\ (direct.why = "expired") =>
              ExpiryOf(direct.token) <= direct.at
        /\ (direct.raised = "none") <=> (direct.why = "none")

\* a lifetime that is not positive is reported for a token whose beg + ltm
\* is in the past
C31_Witness ==
    /\ Parsed
    /\ HasBegLtm(direct.token)
    /\ direct.token.ltm.val <= 0
    /\ ExpiryOf(direct.token) < direct.at
    /\ direct.why = "ltm_not_positive"

(* ------------------------------- C32 ----------------------------------- *)
\* C32: the measurement request of a call with a non-empty filter all of
\* whose names the catalog has carries in reg one index per requested name,
\* in the order of the request and as often as the name was given, each the
\* idx the catalog has for that name; the request of a call without a
\* filter carries no reg.
C32_FilterEncoding ==
    \A p \in Callers :
        (op[p] \in MeasureMethods /\ frame[p].stage = "request") =>
            IF Filtered(frame[p].registers)
            THEN LET names == frame[p].registers[1]
                 IN  /\ register_cache # None
                     /\ Len(frame[p].reg) = Len(names)
                     /\ \A i \in DOMAIN names :
                           /\ names[i] \in DOMAIN register_cache[1]
                           /\ frame[p].reg[i] = register_cache[1][names[i]].idx
            ELSE frame[p].reg = <<>>

\* Grid was asked for twice, around L1 Voltage, and the request carried the
\* index of Grid, that of L1 Voltage, and that of Grid again
C32_Witness ==
    \E p \in Callers :
        /\ op[p] \in MeasureMethods /\ Returned(p)
        /\ frame[p].registers = <<<<"Grid", "L1 Voltage", "Grid">>>>
        /\ Len(frame[p].reg) = 3
        /\ frame[p].reg[1] = frame[p].reg[3]
        /\ frame[p].reg[2] = 3
        /\ frame[p].reg[1] # 3

(* ------------------------------- C38 ----------------------------------- *)
\* what call p has returned has a value for every value of the response:
\* one for each entry of a rate response, one for each column of each row
\* of a counter response, under the name of the register of that column
AllOfResponse(p) ==
    LET regs == RegistersOf(frame[p].data)
        ranges == RangesOf(frame[p].data)
        value == result[p].value
    IN  CASE op[p] = "get_current_measurements" ->
                 \A j \in DOMAIN regs : regs[j].name \in DOMAIN value
          [] op[p] = "get_current_counters" ->
                 \A j \in DOMAIN ranges[1].rows[1] : regs[j].name \in DOMAIN value
          [] op[p] = "get_historical_counters" ->
                 \A k \in DOMAIN ranges : \A i \in DOMAIN ranges[k].rows :
                     \A j \in DOMAIN ranges[k].rows[i] :
                         regs[j].name \in DOMAIN value[RowsBefore(ranges, k) + i]

\* C38: a measurement method called with the empty list makes its
\* measurement request at once, before anything else is sent and with the
\* catalog as it was, the request carries no reg, and what is returned has
\* every register the response has a value for.
C38_EmptyFilter ==
    \A p \in Callers :
        (op[p] \in MeasureMethods /\ frame[p].registers = <<<<>>>>) =>
            /\ frame[p].stage = "request"
            /\ frame[p].since = 0
            /\ frame[p].reg = <<>>
            /\ ResourceGets(trace[p]) <= 2
            /\ (ResourceGets(trace[p]) = 2) => Answers(trace[p])[1] = "recv 401"
            /\ Returned(p) => AllOfResponse(p)

\* a call with the empty list has returned both registers of the device
\* while the client had no catalog
C38_Witness ==
    \E p \in Callers :
        /\ op[p] = "get_current_counters" /\ Returned(p)
        /\ frame[p].registers = <<<<>>>>
        /\ register_cache = None
        /\ ResourceGets(trace[p]) = 1
        /\ {"Grid", "L1 Voltage"} \subseteq DOMAIN result[p].value

(* ------------------------------- C34 ----------------------------------- *)
\* C34: a get_token call ends with an error only in the step in which its
\* own nonce or login request is answered, having sent one nonce request
\* of its own; that step leaves the token state and the queue as they were,
\* frees the lock, and leaves no valid token behind.  A waiting get_token
\* that gets the lock and finds no valid token sends a nonce request of its
\* own.  At any time at most one call is between its nonce request and the
\* end of its login, and no call sends more than one nonce request.
C34_FailedRefreshNotShared ==
    [][/\ \A p \in Calls : (op'[p] = "get_token") =>
            /\ (pc[p] # "done" /\ pc'[p] = "done" /\ result'[p].kind # "token") =>
                  /\ pc[p] \in {"nonce", "login"}
                  /\ Count(trace'[p], "GET nonce") = 1
                  /\ lock_holder = p /\ lock_holder' = 0
                  /\ token_state' = token_state
                  /\ lock_waiters' = lock_waiters
                  /\ ~IsTokenValid(token_state', now', refresh_buffer_seconds')
            /\ (/\ pc[p] = "lock_get" /\ pc'[p] # "lock_get"
                /\ ~IsTokenValid(token_state, now, refresh_buffer_seconds)) =>
                  /\ pc'[p] = "nonce" /\ lock_holder' = p
                  /\ Count(trace[p], "GET nonce") = 0
                  /\ Count(trace'[p], "GET nonce") = 1
            /\ Count(trace'[p], "GET nonce") <= 1
       /\ Cardinality({p \in Calls : pc'[p] \in {"nonce", "login"}}) <= 1]_vars

\* three get_token calls against a server that refuses every login: the
\* first two have raised, each after a nonce request of its own, no token
\* was ever stored, and the third is at its own attempt
C34_Witness ==
    /\ \A p \in Calls : op[p] = "get_token" /\ ~Has(trace[p], "store")
    /\ \A p \in {1, 2} :
          /\ pc[p] = "done" /\ result[p].kind = "EgaugeAuthenticationError"
          /\ Count(trace[p], "GET nonce") = 1
    /\ pc[3] = "login" /\ lock_holder = 3
    /\ token_state = None
    /\ NonceGets = 3

(* ------------------------------- C35 ----------------------------------- *)
\* the stored token had at most the refresh buffer left when it was stored
ShortLived(ts, buf) ==
    ts # None /\ ts[1].expiry_timestamp - ts[1].issued_at <= buf
\* a login answer with a token that has not expired and has at most the
\* refresh buffer left
ShortLivedLogin(resp, t, buf) ==
    /\ resp.kind = "http" /\ resp.status = 200 /\ ~resp.error /\ resp.jwt
    /\ HasBegLtm(resp.token)
    /\ resp.token.ltm.val > 0 /\ resp.token.ltm.val <= 86400
    /\ t < ExpiryOf(resp.token)
    /\ ExpiryOf(resp.token) <= t + buf

C36_CheckThenRead ==
    [][\A p \in Calls :
          (/\ op'[p] = "get_token" /\ pc[p] # "done"
           /\ pc'[p] = "done" /\ result'[p].kind = "token") =>
              /\ result'[p].token # NoToken
              /\ IF pc[p] = "login"
                 THEN /\ token_state' # None
                      /\ token_state'[1].token = result'[p].token
                      /\ token_state'[1].issued_at = now
                      /\ \A q \in Calls : q # p /\ pc[q] = "done" =>
                            result[q].token # result'[p].token
                 ELSE /\ pc[p] \in {"idle", "lock_get"}
                      /\ IsTokenValid(token_state, now, refresh_buffer_seconds)
                      /\ result'[p].token = token_state[1].token
                      /\ token_state' = token_state]_vars

\* a get_token made after an invalidate_token that emptied the token state
\* has returned a token of its own login, not the one cached before
C36_Witness ==
    /\ op[1] = "get_token" /\ ReturnedToken(1)
    /\ op[2] = "invalidate_token" /\ pc[2] = "done"
    /\ op[3] = "get_token" /\ ReturnedToken(3)
    /\ Count(trace[3], "POST login") = 1
    /\ result[3].token # result[1].token
    /\ token_state # None /\ token_state[1].token = result[3].token

(* ------------------------------- C37 ----------------------------------- *)
\* C37: the step in which logout() sends its request finds a token in the
\* token state, sends that token as the bearer, empties the token state
\* and leaves the lock free; while the request is in flight logout() does
\* not hold the lock; and the step in which the answer arrives ends the
\* call without touching the token state or the lock and without another
\* request, so that a token cached in between stays cached.
C37_LogoutOutsideLock ==
    [][\A p \in Calls : (op'[p] = "logout") =>
          /\ (pc[p] # "logout" /\ pc'[p] = "logout") =>
                /\ token_state # None
                /\ trace'[p][Len(trace'[p])] =
                      Ev("GET logout", token_state[1].token)
                /\ token_state' = None
                /\ lock_holder' = 0
          /\ (pc[p] = "logout") =>
                /\ lock_holder # p
                /\ Count(trace[p], "GET logout") = 1
          /\ (pc[p] = "logout" /\ pc'[p] # "logout") =>
                /\ pc'[p] = "done"
                /\ token_state' = token_state
                /\ lock_holder' = lock_holder /\ lock_waiters' = lock_waiters
                /\ Count(trace'[p], "GET logout") = 1]_vars

\* the logout request of the second call is in flight, sent with the token
\* of the first call, and the third call has meanwhile logged in and cached
\* a new token
C37_Witness ==
    /\ op[1] = "get_token" /\ ReturnedToken(1)
    /\ op[2] = "logout" /\ pc[2] = "logout"
    /\ trace[2][Len(trace[2])] = Ev("GET logout", result[1].token)
    /\ op[3] = "get_token" /\ ReturnedToken(3)
    /\ Count(trace[3], "POST login") = 1
    /\ result[3].token # result[1].token
    /\ token_state # None /\ token_state[1].token = result[3].token

(* ------------------------------- C33 ----------------------------------- *)
\* the lock is held only by a call that is between its nonce request and
\* the answer to its login
HeldOnlyInRefresh ==
    \A p \in Requests : (lock_holder = p) => pc[p] \in {"nonce", "login"}

\* C33: a call of get_token(), invalidate_token(), logout() or
\* _get_with_auth that has ended, by a return or by an exception, does not
\* hold the token lock, nor does a call that awaits anything but the
\* answers of its own refresh; and when every HTTP call is answered and
\* woken tasks are run, every call that was made ends, however the calls
\* are interleaved: from some point on each call is either not made or
\* has ended (a call that has ended stays so).
C33_Termination ==
    /\ [] HeldOnlyInRefresh
    /\ \A p \in Requests : <>[](pc[p] \in {"idle", "done"})

\* a get_token has raised on the answer to its nonce request while a
\* _get_with_auth was queued for the lock; that one has since been refused
\* once, has authenticated again, and has ended with the second response
C33_Witness ==
    /\ op[1] = "get_token" /\ pc[1] = "done"
    /\ result[1].kind = "TransportError"
    /\ op[2] = "_get_with_auth" /\ pc[2] = "done"
    /\ result[2].kind = "response"
    /\ Count(trace[2], "GET nonce") = 2
    /\ lock_holder = 0 /\ lock_waiters = <<>>

====
